---------------------------- MODULE Spec2Model ----------------------------
(***************************************************************************)
(* A model of the IDA step engine of ida-rs (src/src/ida.rs) and of its    *)
(* Newton solver (src/src/nonlinear/newton.rs).                            *)
(*                                                                         *)
(* Scalars (F::Scalar, an f64 in the tests) are modelled as exact          *)
(* rationals <<n, d>> in lowest terms with d > 0, extended with the three  *)
(* non-finite values of IEEE arithmetic: <<1,0>> = +inf, <<-1,0>> = -inf   *)
(* and <<0,0>> = NaN.  Rounding is therefore not modelled, division by     *)
(* zero and its propagation are.  Vectors (Array1) are sequences of        *)
(* scalars, phi (Array2) is a function from the row index 0..MXORDP1-1 to  *)
(* vectors, the coefficient arrays are functions from 0..MXORDP1-1.        *)
(***************************************************************************)
EXTENDS Integers, Sequences, FiniteSets, TLC

VARIABLES
    ida,      \* the Ida struct (a record of its fields)
    h1,       \* the last engine operation: [op, arg, ret, pre] (pre = ida before it)
    h2,       \* the operation before the last one, same shape
    panic,    \* TRUE once an operation has panicked (the program has aborted)
    nops,     \* number of operations performed so far
    st,       \* the activation of step(): its position, locals and a log of its attempts
    newton,   \* the Newton struct (a record of its fields)
    sv        \* the activation of Newton::solve(): its position, locals and a log of the call

vars == <<ida, h1, h2, panic, nops, st, newton, sv>>

---------------------------------------------------------------------------
(* Program constants, src/src/ida.rs lines 8-32.                           *)
MAXORD_DEFAULT == 5
MXORDP1 == 6
MXNCF == 10
MXNEF == 10

---------------------------------------------------------------------------
(* Scalars.                                                                *)

IAbs(x) == IF x < 0 THEN -x ELSE x
ISgn(x) == IF x < 0 THEN -1 ELSE IF x > 0 THEN 1 ELSE 0

RECURSIVE Gcd(_, _)
Gcd(a, b) == IF b = 0 THEN a ELSE Gcd(b, a % b)

\* The scalar n/d in normal form; d = 0 gives +inf, -inf or NaN by the sign of n.
Rat(n, d) ==
    IF d = 0 THEN <<ISgn(n), 0>>
    ELSE LET g == Gcd(IAbs(n), IAbs(d))
             s == IF d < 0 THEN -1 ELSE 1
         IN  <<s * (n \div g), s * (d \div g)>>

R(n) == <<n, 1>>
Zero == R(0)
One == R(1)
NaN == <<0, 0>>
PosInf == <<1, 0>>

IsNaN(a) == a = NaN
IsInf(a) == a[2] = 0 /\ a[1] # 0

RNeg(a) == <<-a[1], a[2]>>
RAbs(a) == <<IAbs(a[1]), a[2]>>

RAdd(a, b) ==
    IF IsNaN(a) \/ IsNaN(b) THEN NaN
    ELSE IF IsInf(a) /\ IsInf(b) THEN (IF a = b THEN a ELSE NaN)
    ELSE IF IsInf(a) THEN a
    ELSE IF IsInf(b) THEN b
    ELSE LET g == Gcd(a[2], b[2])
         IN  Rat(a[1] * (b[2] \div g) + b[1] * (a[2] \div g), (a[2] \div g) * b[2])

RSub(a, b) == RAdd(a, RNeg(b))

RMul(a, b) ==
    IF a[2] = 0 \/ b[2] = 0 THEN <<ISgn(a[1]) * ISgn(b[1]), 0>>
    ELSE LET g1 == Gcd(IAbs(a[1]), b[2])
             g2 == Gcd(IAbs(b[1]), a[2])
         IN  <<(a[1] \div g1) * (b[1] \div g2), (a[2] \div g2) * (b[2] \div g1)>>

\* f64::recip: 1/0 = +inf, 1/inf = 0, 1/NaN = NaN
RRecip(a) == Rat(a[2], a[1])

RDiv(a, b) == RMul(a, RRecip(b))

\* The comparisons of IEEE arithmetic: every comparison with NaN is false,
\* except !=, which is true.
RLt(a, b) ==
    /\ ~IsNaN(a) /\ ~IsNaN(b)
    /\ IF a[2] = 0 /\ b[2] = 0 THEN a[1] < b[1] ELSE a[1] * b[2] < b[1] * a[2]
RLe(a, b) ==
    /\ ~IsNaN(a) /\ ~IsNaN(b)
    /\ IF a[2] = 0 /\ b[2] = 0 THEN a[1] <= b[1] ELSE a[1] * b[2] <= b[1] * a[2]
RGt(a, b) == RLt(b, a)
RGe(a, b) == RLe(b, a)
REq(a, b) == ~IsNaN(a) /\ ~IsNaN(b) /\ a = b
RNe(a, b) == ~REq(a, b)

\* f64::max and f64::min: a NaN operand is ignored.
RMax(a, b) == IF IsNaN(a) THEN b ELSE IF IsNaN(b) THEN a ELSE IF RLt(a, b) THEN b ELSE a
RMin(a, b) == IF IsNaN(a) THEN b ELSE IF IsNaN(b) THEN a ELSE IF RLt(b, a) THEN b ELSE a

---------------------------------------------------------------------------
(* Roots.  f64::sqrt and f64::powf round their result to the nearest       *)
(* float; the model rounds it down to a multiple of 1/grid, so a result    *)
(* that lies on the grid is exact.                                         *)

SqrtGrid == 8        \* sqrt results are multiples of 1/SqrtGrid
PowGrid == 4         \* powf results are multiples of 1/PowGrid

RECURSIVE IPow(_, _)
IPow(b, n) == IF n = 0 THEN 1 ELSE b * IPow(b, n - 1)

\* floor((q + r/d) * g^n), one factor g at a time (0 <= r < d)
RECURSIVE ScaleFloor(_, _, _, _, _)
ScaleFloor(q, r, d, g, n) ==
    IF n = 0 THEN q
    ELSE ScaleFloor(q * g + ((r * g) \div d), (r * g) % d, d, g, n - 1)

\* s^n <= y, for s >= 0 and y >= 0, without forming s^n
RECURSIVE PowLe(_, _, _)
PowLe(s, n, y) ==
    IF n = 0 THEN 1 <= y
    ELSE IF s = 0 THEN TRUE
    ELSE PowLe(s, n - 1, y \div s)

\* the largest s with s^n <= y, given lo^n <= y < hi^n (bisection)
RECURSIVE IRootIn(_, _, _, _)
IRootIn(y, n, lo, hi) ==
    IF hi - lo <= 1 THEN lo
    ELSE LET mid == lo + ((hi - lo) \div 2)
         IN  IF PowLe(mid, n, y) THEN IRootIn(y, n, mid, hi) ELSE IRootIn(y, n, lo, mid)

\* the n-th root of the finite scalar a >= 0, rounded down to the grid 1/g
RootGrid(a, n, g) ==
    LET y == ScaleFloor(a[1] \div a[2], a[1] % a[2], a[2], g, n)
    IN  Rat(IRootIn(y, n, 0, y + 1), g)

\* f64::sqrt
RSqrt(a) ==
    IF IsNaN(a) \/ a[1] < 0 THEN NaN
    ELSE IF IsInf(a) THEN PosInf
    ELSE RootGrid(a, 2, SqrtGrid)

\* base.powf(-1/n), n >= 1 an integer: NaN for a negative base and a
\* fractional exponent, +inf at 0, 0 at +inf.
powf(base, n) ==
    IF n = 1 THEN RRecip(base)
    ELSE IF IsNaN(base) \/ base[1] < 0 THEN NaN
    ELSE IF base = PosInf THEN Zero
    ELSE IF base[1] = 0 THEN PosInf
    ELSE RootGrid(RRecip(base), n, PowGrid)

---------------------------------------------------------------------------
(* Vectors and coefficient arrays.                                         *)

Rows == 0 .. (MXORDP1 - 1)

\* the sequence f[1], ..., f[n] (a vector given by its components)
RECURSIVE Vec(_, _)
Vec(f, n) == IF n = 0 THEN << >> ELSE Append(Vec(f, n - 1), f[n])

VAdd(x, y) == Vec([i \in DOMAIN x |-> RAdd(x[i], y[i])], Len(x))
VSub(x, y) == Vec([i \in DOMAIN x |-> RSub(x[i], y[i])], Len(x))
VScale(c, x) == Vec([i \in DOMAIN x |-> RMul(c, x[i])], Len(x))
VZeros(n) == Vec([i \in 1 .. n |-> Zero], n)
AZeros(n) == [i \in 0 .. (n - 1) |-> Zero]

---------------------------------------------------------------------------
(* The Ida struct and its constructor.                                     *)

\* Ida::new(f, yy0, yp0): every array zeroed, phi[0] = yy0, phi[1] = yp0,
\* the limits at their defaults, every counter and step datum 0.  The fields
\* that no modelled operation reads or writes (ida_constraintsSet, ida_hin,
\* ida_h0u, ida_tretlast, ida_mxstep, ida_nre, ida_ncfn, ida_netf, ida_nni,
\* ida_nsetups) are left out of the record.
new(yy0, yp0) ==
    LET n == Len(yy0) IN
    [ ida_suppressalg |-> FALSE,
      ida_phi |-> [j \in Rows |-> IF j = 0 THEN yy0 ELSE IF j = 1 THEN yp0 ELSE VZeros(n)],
      ida_psi |-> AZeros(MXORDP1),
      ida_alpha |-> AZeros(MXORDP1),
      ida_beta |-> AZeros(MXORDP1),
      ida_sigma |-> AZeros(MXORDP1),
      ida_gamma |-> AZeros(MXORDP1),
      ida_ewt |-> VZeros(n),
      ida_yypredict |-> VZeros(n),
      ida_yppredict |-> VZeros(n),
      ida_delta |-> VZeros(n),
      ida_id |-> Vec([i \in 1 .. n |-> FALSE], n),
      ida_ee |-> VZeros(n),
      ida_tstopset |-> FALSE,
      ida_tstop |-> Zero,
      ida_kk |-> 0,
      ida_kused |-> 0,
      ida_knew |-> 0,
      ida_phase |-> 0,
      ida_ns |-> 0,
      ida_hh |-> Zero,
      ida_hused |-> Zero,
      ida_rr |-> Zero,
      ida_tn |-> Zero,
      ida_cj |-> Zero,
      ida_cjlast |-> Zero,
      ida_maxncf |-> MXNCF,
      ida_maxnef |-> MXNEF,
      ida_maxord |-> MAXORD_DEFAULT,
      ida_hmax_inv |-> Zero,
      ida_nst |-> 0,
      ida_cvals |-> AZeros(MXORDP1),
      ida_dvals |-> AZeros(MAXORD_DEFAULT),
      ida_Xvecs |-> [j \in Rows |-> VZeros(n)],
      ida_Zvecs |-> [j \in Rows |-> VZeros(n)] ]

\* The result of an engine operation: the struct after it, the value it
\* returns, and whether it panicked (an index out of bounds, an unsigned
\* underflow in a build with overflow checks, unimplemented!()).  Unit is
\* what a function returning () returns.
Unit == [unit |-> TRUE]
Done(m, ret) == [m |-> m, ret |-> ret, panicked |-> FALSE]
Panicked(m) == [m |-> m, ret |-> [panic |-> TRUE], panicked |-> TRUE]

---------------------------------------------------------------------------
(* set_coeffs, src/src/ida.rs lines 549-616.                               *)

Min(a, b) == IF a < b THEN a ELSE b

\* The loop `for i in 1..self.ida_kk` (i = 1 .. kk-1) of set_coeffs.
RECURSIVE set_coeffs_loop(_, _, _)
set_coeffs_loop(m, i, temp1) ==
    IF i >= m.ida_kk THEN [m |-> m, temp1 |-> temp1]
    ELSE LET temp2 == m.ida_psi[i - 1]
             psi == [m.ida_psi EXCEPT ![i - 1] = temp1]
             beta == [m.ida_beta EXCEPT ![i] = RMul(m.ida_beta[i - 1], RDiv(psi[i - 1], temp2))]
             t1 == RAdd(temp2, m.ida_hh)
             alpha == [m.ida_alpha EXCEPT ![i] = RDiv(m.ida_hh, t1)]
             sigma == [m.ida_sigma EXCEPT ![i] = RMul(RMul(m.ida_sigma[i - 1], alpha[i]), R(i))]
             gamma == [m.ida_gamma EXCEPT ![i] = RAdd(m.ida_gamma[i - 1], RDiv(alpha[i - 1], m.ida_hh))]
         IN  set_coeffs_loop([m EXCEPT !.ida_psi = psi, !.ida_beta = beta, !.ida_alpha = alpha,
                                       !.ida_sigma = sigma, !.ida_gamma = gamma], i + 1, t1)

\* The recomputation of the coefficients, done when kk + 1 >= ns.
set_coeffs_recompute(m) ==
    LET m0 == [m EXCEPT !.ida_beta[0] = One, !.ida_alpha[0] = One,
                        !.ida_gamma[0] = Zero, !.ida_sigma[0] = One]
        l == set_coeffs_loop(m0, 1, m.ida_hh)
    IN  [l.m EXCEPT !.ida_psi[m.ida_kk] = l.temp1]

\* alphas = - sum_{i < kk} 1/(i+1) and alpha0 = - sum_{i < kk} alpha[i]
RECURSIVE set_coeffs_alphas(_)
set_coeffs_alphas(k) == IF k = 0 THEN Zero ELSE RSub(set_coeffs_alphas(k - 1), Rat(1, k))
RECURSIVE set_coeffs_alpha0(_, _)
set_coeffs_alpha0(alpha, k) ==
    IF k = 0 THEN Zero ELSE RSub(set_coeffs_alpha0(alpha, k - 1), alpha[k - 1])

\* a variant of set_coeffs_ns that never resets the count; C18 does not hold of it
set_coeffs_ns_unreset(m) == Min(m.ida_ns + 1, m.ida_kused + 2)

\* The step count ns: reset when the step size or the order changed.
set_coeffs_ns(m) ==
    LET ns0 == IF RNe(m.ida_hh, m.ida_hused) \/ m.ida_kk # m.ida_kused THEN 0 ELSE m.ida_ns
    IN  Min(ns0 + 1, m.ida_kused + 2)

\* The phi-star scaling of rows ns..=kk: the source only takes slices of
\* beta and phi there (the N_VScaleVectorArray call is commented out), so
\* phi is not changed.
set_coeffs_phistar(m) == m.ida_phi

\* the tail of set_coeffs: cjlast, cj and the returned ck
set_coeffs_ck(m) ==
    IF m.ida_kk >= MXORDP1 THEN Panicked(m)   \* alpha[kk] out of bounds
    ELSE LET alphas == set_coeffs_alphas(m.ida_kk)
             alpha0 == set_coeffs_alpha0(m.ida_alpha, m.ida_kk)
             ck0 == RAbs(RSub(RAdd(m.ida_alpha[m.ida_kk], alphas), alpha0))
         IN  Done([m EXCEPT !.ida_cjlast = m.ida_cj,
                            !.ida_cj = RDiv(RNeg(alphas), m.ida_hh),
                            !.ida_phi = set_coeffs_phistar(m)],
                  [ck |-> RMax(ck0, m.ida_alpha[m.ida_kk])])

\* set_coeffs once ns is updated
set_coeffs_body(m) ==
    IF m.ida_kk + 1 >= m.ida_ns
    THEN (IF m.ida_kk >= MXORDP1 THEN Panicked(m)   \* psi[kk] out of bounds
          ELSE set_coeffs_ck(set_coeffs_recompute(m)))
    ELSE set_coeffs_ck(m)

set_coeffs(m) == set_coeffs_body([m EXCEPT !.ida_ns = set_coeffs_ns(m)])

---------------------------------------------------------------------------
(* restore, src/src/ida.rs lines 738-776.                                  *)

\* psi[j-1] = psi[j] - hh for j in 1..=kk, in increasing j
RECURSIVE restore_psi(_, _, _, _)
restore_psi(psi, hh, j, kk) ==
    IF j > kk THEN psi
    ELSE restore_psi([psi EXCEPT ![j - 1] = RSub(psi[j], hh)], hh, j + 1, kk)

\* a variant of restore_phi that scales row j by cvals[j]; C16 does not hold of it
restore_phi_unshifted(m, cvals) ==
    [m EXCEPT !.ida_cvals = cvals,
              !.ida_phi = [j \in Rows |-> IF m.ida_ns <= j /\ j <= m.ida_kk
                                          THEN VScale(cvals[j], m.ida_phi[j])
                                          ELSE m.ida_phi[j]]]

\* the rescaling of phi rows ns..=kk by cvals[0..=kk-ns] = 1/beta[ns..=kk]
restore_phi(m, cvals) ==
    [m EXCEPT !.ida_cvals = cvals,
              !.ida_phi = [j \in Rows |-> IF m.ida_ns <= j /\ j <= m.ida_kk
                                          THEN VScale(cvals[j - m.ida_ns], m.ida_phi[j])
                                          ELSE m.ida_phi[j]]]

restore(m, saved_t) ==
    IF m.ida_kk >= MXORDP1 THEN Panicked([m EXCEPT !.ida_tn = saved_t])   \* psi[kk]
    ELSE IF m.ida_ns <= m.ida_kk
    THEN Done(restore_phi([m EXCEPT !.ida_tn = saved_t,
                                    !.ida_psi = restore_psi(m.ida_psi, m.ida_hh, 1, m.ida_kk)],
                          [i \in Rows |-> IF i <= m.ida_kk - m.ida_ns
                                          THEN RRecip(m.ida_beta[m.ida_ns + i])
                                          ELSE m.ida_cvals[i]]),
              Unit)
    ELSE Done([m EXCEPT !.ida_tn = saved_t,
                        !.ida_psi = restore_psi(m.ida_psi, m.ida_hh, 1, m.ida_kk)],
              Unit)

---------------------------------------------------------------------------
(* The WRMS norm, src/src/traits.rs lines 132-164 and ida.rs 1085-1097.    *)

RECURSIVE SumSeq(_, _)
SumSeq(x, i) == IF i = 0 THEN Zero ELSE RAdd(SumSeq(x, i - 1), x[i])

\* sqrt(sum((x_i w_i)^2) / len)
norm_wrms(x, w) ==
    LET sq == [i \in DOMAIN x |-> RMul(RMul(x[i], w[i]), RMul(x[i], w[i]))]
    IN  RSqrt(RDiv(SumSeq(sq, Len(x)), R(Len(x))))

\* the same with x_i w_i multiplied by 1 where id_i holds and by 0 elsewhere
norm_wrms_masked(x, w, id) ==
    LET xw == [i \in DOMAIN x |-> RMul(RMul(x[i], w[i]), IF id[i] THEN One ELSE Zero)]
        sq == [i \in DOMAIN x |-> RMul(xw[i], xw[i])]
    IN  RSqrt(RDiv(SumSeq(sq, Len(x)), R(Len(x))))

wrms_norm(m, x, w, mask) ==
    IF mask THEN norm_wrms_masked(x, w, m.ida_id) ELSE norm_wrms(x, w)

---------------------------------------------------------------------------
(* predict, src/src/ida.rs lines 627-667.                                  *)

\* sum over the rows j >= from of cvals[j] * phi[j][n]
RECURSIVE predict_sum(_, _, _, _)
predict_sum(phi, cvals, n, from) ==
    IF from >= MXORDP1 THEN Zero
    ELSE RAdd(RMul(phi[from][n], cvals[from]), predict_sum(phi, cvals, n, from + 1))

predict(m) ==
    LET kk == m.ida_kk
        cvals == [j \in Rows |-> IF j < kk THEN One ELSE m.ida_cvals[j]]
        m1 == [m EXCEPT !.ida_cvals = cvals]
    IN  IF kk + 1 >= MXORDP1 THEN Panicked(m1)   \* phi.index_axis(Axis(0), kk + 1)
        ELSE Done([m1 EXCEPT
                      !.ida_delta = VAdd(m.ida_phi[kk], m.ida_ee),
                      !.ida_yypredict = Vec([n \in DOMAIN m.ida_yypredict |->
                                                predict_sum(m.ida_phi, cvals, n, kk + 1)],
                                            Len(m.ida_yypredict))],
                  Unit)

---------------------------------------------------------------------------
(* test_error, src/src/ida.rs lines 675-731.                               *)

\* a variant of the order suggestion that lowers the order only on a strict
\* improvement; C7 does not hold of it
test_error_knew_strict(kk, terr_k, terr_km1, terr_km2) ==
    IF kk > 2 THEN (IF RLt(RMax(terr_km1, terr_km2), terr_k) THEN kk - 1 ELSE kk)
    ELSE IF kk > 1 THEN (IF RLt(terr_km1, RMul(terr_k, Rat(1, 2))) THEN kk - 1 ELSE kk)
    ELSE kk

\* the order suggested for the next step
test_error_knew(kk, terr_k, terr_km1, terr_km2) ==
    IF kk > 2 THEN (IF RLe(RMax(terr_km1, terr_km2), terr_k) THEN kk - 1 ELSE kk)
    ELSE IF kk > 1 THEN (IF RLe(terr_km1, RMul(terr_k, Rat(1, 2))) THEN kk - 1 ELSE kk)
    ELSE kk

\* a variant of the third value with the opposite sense, `(ck * enorm_k) <= 1`;
\* C6 does not hold of it
test_error_passed(ck, enorm_k) == RLe(RMul(ck, enorm_k), One)

\* the third value returned, `(ck * enorm_k) > 1`
test_error_nflag(ck, enorm_k) == RGt(RMul(ck, enorm_k), One)

\* the vector whose norm gives the error estimate at order kk-1, phi[kk] + ee
test_error_delta_km1(m) == VAdd(m.ida_phi[m.ida_kk], m.ida_ee)

\* the vector whose norm gives the error estimate at order kk-2: delta is
\* assigned phi[kk-1] and ee is added to it (scaled_add(one, ee))
test_error_delta_km2(m) == VAdd(m.ida_phi[m.ida_kk - 1], m.ida_ee)

\* err_km1 = sigma[kk-1] * enorm_km1 when kk > 1, else zero
test_error_err_km1(m) ==
    IF m.ida_kk > 1
    THEN RMul(m.ida_sigma[m.ida_kk - 1],
              wrms_norm(m, test_error_delta_km1(m), m.ida_ewt, m.ida_suppressalg))
    ELSE Zero

\* err_km2 = sigma[kk-2] * enorm_km2 when kk > 2, else zero
test_error_err_km2(m) ==
    IF m.ida_kk > 2
    THEN RMul(m.ida_sigma[m.ida_kk - 2],
              wrms_norm(m, test_error_delta_km2(m), m.ida_ewt, m.ida_suppressalg))
    ELSE Zero

\* the scratch vector delta as test_error leaves it
test_error_delta(m) ==
    IF m.ida_kk > 2 THEN test_error_delta_km2(m)
    ELSE IF m.ida_kk > 1 THEN test_error_delta_km1(m)
    ELSE m.ida_delta

\* the assignments and the returned triple, given the norms and estimates
test_error_result(m, ck, enorm_k, err_k, err_km1, err_km2) ==
    Done([m EXCEPT !.ida_knew = test_error_knew(m.ida_kk,
                                                RMul(err_k, R(m.ida_kk + 1)),
                                                RMul(err_km1, R(m.ida_kk)),
                                                RMul(err_km2, R(m.ida_kk - 1))),
                   !.ida_delta = test_error_delta(m)],
         [err_k |-> err_k, err_km1 |-> err_km1, nflag |-> test_error_nflag(ck, enorm_k)])

test_error_errs(m, ck, enorm_k) ==
    test_error_result(m, ck, enorm_k, RMul(m.ida_sigma[m.ida_kk], enorm_k),
                      test_error_err_km1(m), test_error_err_km2(m))

test_error(m, ck) ==
    IF m.ida_kk >= MXORDP1 THEN Panicked(m)   \* sigma[kk]
    ELSE test_error_errs(m, ck, wrms_norm(m, m.ida_ee, m.ida_ewt, m.ida_suppressalg))

---------------------------------------------------------------------------
(* reset, src/src/ida.rs lines 823-827.                                    *)

reset(m) ==
    Done([m EXCEPT !.ida_psi[0] = m.ida_hh,
                   !.ida_phi = [j \in Rows |-> VScale(m.ida_rr, m.ida_phi[j])]],
         Unit)

---------------------------------------------------------------------------
(* complete_step, src/src/ida.rs lines 833-991.                            *)

UsizeBits == 16      \* width kept for the usize order arithmetic
UsizeMod == IPow(2, UsizeBits)

\* a - b on usize: the wrapped value, and whether the subtraction underflows
\* (a panic in a build with overflow checks, a wrap-around without them)
usize_sub(a, b) == [val |-> (a - b + UsizeMod) % UsizeMod, underflow |-> a < b]

\* hnew = 2 hh, divided by tmp = |hnew| * hmax_inv when tmp > 1
complete_step_double(hh, hmax_inv) ==
    LET hnew == RMul(R(2), hh)
        tmp == RMul(RAbs(hnew), hmax_inv)
    IN  IF RGt(tmp, One) THEN RDiv(hnew, tmp) ELSE hnew

\* a variant of complete_step_decide that prefers the higher order on a tie;
\* C22 does not hold of it
complete_step_decide_high(kk, terr_k, terr_km1, terr_kp1) ==
    IF kk = 1
    THEN (IF RGt(terr_kp1, RMul(Rat(1, 2), terr_k)) THEN "Maintain" ELSE "Raise")
    ELSE IF RLt(terr_km1, RMin(terr_k, terr_kp1)) THEN "Lower"
    ELSE IF RGt(terr_kp1, terr_k) THEN "Maintain"
    ELSE "Raise"

\* the order decision from the three truncation error estimates
complete_step_decide(kk, terr_k, terr_km1, terr_kp1) ==
    IF kk = 1
    THEN (IF RGe(terr_kp1, RMul(Rat(1, 2), terr_k)) THEN "Maintain" ELSE "Raise")
    ELSE IF RLe(terr_km1, RMin(terr_k, terr_kp1)) THEN "Lower"
    ELSE IF RGe(terr_kp1, terr_k) THEN "Maintain"
    ELSE "Raise"

\* the decision when the order kk+1 estimate err_kp1 has been computed
complete_step_estimate(m, err_k, err_km1, err_kp1) ==
    [action |-> complete_step_decide(m.ida_kk, RMul(R(m.ida_kk + 1), err_k),
                                     RMul(R(m.ida_kk), err_km1),
                                     RMul(R(m.ida_kk + 2), err_kp1)),
     err_kp1 |-> err_kp1]

\* a variant of complete_step_action without the test kk = maxord; C17 does
\* not hold of it
complete_step_action_uncapped(m, kdiff, err_k, err_km1) ==
    IF m.ida_knew = usize_sub(m.ida_kk, 1).val THEN [action |-> "Lower", err_kp1 |-> Zero]
    ELSE IF m.ida_kk + 1 >= m.ida_ns \/ kdiff = 1 THEN [action |-> "Maintain", err_kp1 |-> Zero]
    ELSE IF m.ida_kk + 1 >= MXORDP1 THEN [action |-> "OutOfBounds", err_kp1 |-> Zero]
    ELSE complete_step_estimate(m, err_k, err_km1,
             RDiv(wrms_norm(m, VSub(m.ida_ee, m.ida_phi[m.ida_kk + 1]),
                            m.ida_ewt, m.ida_suppressalg),
                  R(m.ida_kk + 2)))

\* the order decision of the steady phase: the action and err_kp1
complete_step_action(m, kdiff, err_k, err_km1) ==
    IF m.ida_knew = usize_sub(m.ida_kk, 1).val THEN [action |-> "Lower", err_kp1 |-> Zero]
    ELSE IF m.ida_kk = m.ida_maxord THEN [action |-> "Maintain", err_kp1 |-> Zero]
    ELSE IF m.ida_kk + 1 >= m.ida_ns \/ kdiff = 1 THEN [action |-> "Maintain", err_kp1 |-> Zero]
    ELSE IF m.ida_kk + 1 >= MXORDP1 THEN [action |-> "OutOfBounds", err_kp1 |-> Zero]
    ELSE complete_step_estimate(m, err_k, err_km1,
             RDiv(wrms_norm(m, VSub(m.ida_ee, m.ida_phi[m.ida_kk + 1]),
                            m.ida_ewt, m.ida_suppressalg),
                  R(m.ida_kk + 2)))

\* rr = (2 err_knew + 0.0001)^(-1/(kk+1)); for an exponent whose magnitude
\* is below the rounding unit (kk wrapped around) the float result is 1.
complete_step_rr(err_knew, kk) ==
    IF kk + 1 > 2 * MXORDP1 THEN One
    ELSE powf(RAdd(RMul(R(2), err_knew), Rat(1, 10000)), kk + 1)

\* a variant of the step size rule that shrinks hh by rr as computed, without
\* restricting it to [0.5, 0.9]; C10 does not hold of it
complete_step_size_unclamped(rr, hh, hmax_inv) ==
    IF RGe(rr, R(2)) THEN [rr |-> rr, hh |-> complete_step_double(hh, hmax_inv)]
    ELSE IF RLe(rr, One) THEN [rr |-> rr, hh |-> RMul(hh, rr)]
    ELSE [rr |-> rr, hh |-> hh]

\* the step size rule on rr: the rr kept and the new hh
complete_step_size(rr, hh, hmax_inv) ==
    IF RGe(rr, R(2)) THEN [rr |-> rr, hh |-> complete_step_double(hh, hmax_inv)]
    ELSE IF RLe(rr, One)
    THEN LET r == RMax(Rat(1, 2), RMin(rr, Rat(9, 10)))
         IN  [rr |-> r, hh |-> RMul(hh, r)]
    ELSE [rr |-> rr, hh |-> hh]

\* the order after the action a
complete_step_kk(m, a) ==
    CASE a.action = "Raise" -> m.ida_kk + 1
      [] a.action = "Lower" -> usize_sub(m.ida_kk, 1).val
      [] OTHER -> m.ida_kk

\* the error estimate at the order chosen
complete_step_err_knew(a, err_k, err_km1) ==
    CASE a.action = "Raise" -> a.err_kp1
      [] a.action = "Lower" -> err_km1
      [] OTHER -> err_k

complete_step_set(m, kk, sz) == [m EXCEPT !.ida_kk = kk, !.ida_rr = sz.rr, !.ida_hh = sz.hh]

complete_step_resize(m, kk, err_knew) ==
    complete_step_set(m, kk, complete_step_size(complete_step_rr(err_knew, kk),
                                                m.ida_hh, m.ida_hmax_inv))

\* the steady phase (phase == 1) after the order decision a
complete_step_steady(m, a, err_k, err_km1) ==
    complete_step_resize(m, complete_step_kk(m, a), complete_step_err_knew(a, err_k, err_km1))

\* a variant of complete_step_bootstrap that also raises the order on the
\* first step; C23 does not hold of it
complete_step_bootstrap_first(m) ==
    [m EXCEPT !.ida_kk = m.ida_kk + 1,
              !.ida_hh = complete_step_double(m.ida_hh, m.ida_hmax_inv)]

\* the bootstrap phase (phase == 0): raise the order and double the step
complete_step_bootstrap(m) ==
    IF m.ida_nst > 1
    THEN [m EXCEPT !.ida_kk = m.ida_kk + 1,
                   !.ida_hh = complete_step_double(m.ida_hh, m.ida_hmax_inv)]
    ELSE m

\* the history update: phi[kused+1] = ee when kused < maxord, then
\* Zvecs[0] = ee, Zvecs[1..=kused] = phi[kused..=1], Xvecs[1..=kused] =
\* phi[kused-1..=0], Xvecs[0..=kused] += Zvecs[0..=kused]
complete_step_history(m) ==
    LET ku == m.ida_kused
        phi == IF ku < m.ida_maxord THEN [m.ida_phi EXCEPT ![ku + 1] = m.ida_ee] ELSE m.ida_phi
        Zvecs == [j \in Rows |-> IF j = 0 THEN m.ida_ee
                                 ELSE IF j <= ku THEN phi[ku + 1 - j]
                                 ELSE m.ida_Zvecs[j]]
        Xv == [j \in Rows |-> IF 1 <= j /\ j <= ku THEN phi[ku - j] ELSE m.ida_Xvecs[j]]
        Xvecs == [j \in Rows |-> IF j <= ku THEN VAdd(Xv[j], Zvecs[j]) ELSE Xv[j]]
    IN  [m EXCEPT !.ida_phi = phi, !.ida_Zvecs = Zvecs, !.ida_Xvecs = Xvecs]

\* the end of complete_step: the history update, or the index panic
complete_step_finish(m) ==
    IF \/ m.ida_kused + 1 > MXORDP1
       \/ (m.ida_kused + 1 >= MXORDP1 /\ m.ida_kused < m.ida_maxord)
    THEN Panicked(m)   \* rows kused + 1 of phi, Xvecs, Zvecs
    ELSE Done(complete_step_history(m), Unit)

\* the steady phase once the order decision a is known
complete_step_decided(m, a, err_k, err_km1) ==
    IF a.action = "OutOfBounds" THEN Panicked(m)   \* phi.index_axis(Axis(0), kk + 1)
    ELSE complete_step_finish(complete_step_steady(m, a, err_k, err_km1))

\* the two phases
complete_step_phase(m, kdiff, err_k, err_km1) ==
    IF m.ida_phase = 0 THEN complete_step_finish(complete_step_bootstrap(m))
    ELSE complete_step_decided(m, complete_step_action(m, kdiff, err_k, err_km1), err_k, err_km1)

\* a variant of the head of complete_step that does not count the step; C9
\* does not hold of it
complete_step_head_uncounted(m) ==
    [m EXCEPT !.ida_kused = m.ida_kk, !.ida_hused = m.ida_hh,
              !.ida_phase = IF m.ida_knew = usize_sub(m.ida_kk, 1).val \/ m.ida_kk = m.ida_maxord
                            THEN 1 ELSE m.ida_phase]

\* the head of complete_step: nst, kused, hused and the phase switch
complete_step_head(m) ==
    [m EXCEPT !.ida_nst = m.ida_nst + 1,
              !.ida_kused = m.ida_kk, !.ida_hused = m.ida_hh,
              !.ida_phase = IF m.ida_knew = usize_sub(m.ida_kk, 1).val \/ m.ida_kk = m.ida_maxord
                            THEN 1 ELSE m.ida_phase]

\* `checks` tells whether the build panics on arithmetic overflow
complete_step(m, err_k, err_km1, checks) ==
    IF checks /\ (usize_sub(m.ida_kk, m.ida_kused).underflow \/ usize_sub(m.ida_kk, 1).underflow)
    THEN Panicked([m EXCEPT !.ida_nst = m.ida_nst + 1])
    ELSE complete_step_phase(complete_step_head(m), usize_sub(m.ida_kk, m.ida_kused).val,
                             err_k, err_km1)

---------------------------------------------------------------------------
(* get_solution, src/src/ida.rs lines 1004-1075.                           *)

EpsBits == 12        \* F::Scalar::epsilon() is kept as 2^-EpsBits
epsilon == Rat(1, IPow(2, EpsBits))

\* the loop `for j in 1..kord` (j = 1 .. kord-1) filling cvals and dvals
RECURSIVE get_solution_loop(_, _, _, _, _)
get_solution_loop(m, delt, kord, j, l) ==
    IF j >= kord THEN l
    ELSE LET d == RAdd(RMul(l.d, l.gam), RDiv(l.c, m.ida_psi[j - 1]))
             c == RMul(l.c, l.gam)
             gam == RDiv(RAdd(delt, m.ida_psi[j - 1]), m.ida_psi[j])
         IN  get_solution_loop(m, delt, kord, j + 1,
                 [c |-> c, d |-> d, gam |-> gam,
                  cvals |-> [l.cvals EXCEPT ![j] = c],
                  dvals |-> [l.dvals EXCEPT ![j - 1] = d]])

\* sum_{j = from .. to} a[j - off] * phi[j][n]
RECURSIVE get_solution_sum(_, _, _, _, _, _)
get_solution_sum(phi, a, off, n, from, to) ==
    IF from > to THEN Zero
    ELSE RAdd(RMul(phi[from][n], a[from - off]), get_solution_sum(phi, a, off, n, from + 1, to))

\* the test on t: true when the BadTimeValue error is returned
get_solution_bad_t(m, t) ==
    LET tfuzz0 == RMul(RMul(R(100), epsilon), RAdd(RAbs(m.ida_tn), RAbs(m.ida_hh)))
        tfuzz == IF RLt(m.ida_hh, Zero) THEN RNeg(tfuzz0) ELSE tfuzz0
        tp == RSub(RSub(m.ida_tn, m.ida_hused), tfuzz)
    IN  RLt(RMul(RSub(t, tp), m.ida_hh), Zero)

get_solution(m, t) ==
    IF get_solution_bad_t(m, t)
    THEN Done(m, [ok |-> FALSE, kind |-> "BadTimeValue", t |-> t,
                  tdiff |-> RSub(m.ida_tn, m.ida_hused), tcurr |-> m.ida_tn])
    ELSE
    LET kord == IF m.ida_kused = 0 THEN 1 ELSE m.ida_kused
        delt == RSub(t, m.ida_tn)
    IN  IF kord >= MXORDP1 THEN Panicked(m)   \* rows 0..kord+1 of phi, dvals[0..kord]
        ELSE
        LET l == get_solution_loop(m, delt, kord, 1,
                     [c |-> One, d |-> Zero, gam |-> RDiv(delt, m.ida_psi[0]),
                      cvals |-> [m.ida_cvals EXCEPT ![0] = One], dvals |-> m.ida_dvals])
            N == DOMAIN m.ida_phi[0]
        IN  Done([m EXCEPT !.ida_cvals = l.cvals, !.ida_dvals = l.dvals],
                 [ok |-> TRUE,
                  yret |-> Vec([n \in N |-> get_solution_sum(m.ida_phi, l.cvals, 0, n, 0, kord)],
                               Len(m.ida_phi[0])),
                  ypret |-> Vec([n \in N |-> get_solution_sum(m.ida_phi, l.dvals, 1, n, 1, kord)],
                                Len(m.ida_phi[0]))])

---------------------------------------------------------------------------
(* step, src/src/ida.rs lines 436-538.                                     *)

\* nonlinear_solve, lines 621-623: the body is unimplemented!()
nonlinear_solve(m) == Panicked(m)

\* nonlinear_solve as the interface describes it: the solver leaves its
\* accumulated correction in ee and reports success, a recoverable
\* convergence failure or a nonrecoverable failure.
nonlinear_solve_spec(m, out) == Done([m EXCEPT !.ida_ee = out.ee], [flag |-> out.flag])

\* the initialisation for the first step (nst == 0)
step_begin(m) ==
    IF m.ida_nst = 0
    THEN [m EXCEPT !.ida_kk = 1, !.ida_kused = 0, !.ida_hused = One,
                   !.ida_psi[0] = m.ida_hh, !.ida_cj = RDiv(One, m.ida_hh),
                   !.ida_phase = 0, !.ida_ns = 0]
    ELSE m

\* tn += hh, and tn = tstop when tstopset and (tn - tstop) * hh > one
step_advance(m) ==
    LET tn == RAdd(m.ida_tn, m.ida_hh)
    IN  [m EXCEPT !.ida_tn = IF m.ida_tstopset /\ RGt(RMul(RSub(tn, m.ida_tstop), m.ida_hh), One)
                             THEN m.ida_tstop ELSE tn]

\* what one pass of the loop leaves: the struct, whether it panicked, the
\* engine operations it called, the solver's flag, whether the error test
\* ran and the flag it returned, and ck
Attempt(r, calls, nls, tested, nflag, ck) ==
    [m |-> r.m, panicked |-> r.panicked, calls |-> calls, nls |-> nls,
     tested |-> tested, nflag |-> nflag, ck |-> ck]

\* after restore: reset() when nst == 0, then `continue`
step_reset(r, calls, nls, tested, nflag, ck) ==
    IF ~r.panicked /\ r.m.ida_nst = 0
    THEN Attempt(reset(r.m), Append(calls, "reset"), nls, tested, nflag, ck)
    ELSE Attempt(r, calls, nls, tested, nflag, ck)

\* restore(saved_t), called whatever the solver and the error test returned
step_restore(m, saved_t, calls, nls, tested, nflag, ck) ==
    step_reset(restore(m, saved_t), Append(calls, "restore"), nls, tested, nflag, ck)

\* after test_error returned r
step_test_error(r, saved_t, calls, ck) ==
    IF r.panicked THEN Attempt(r, calls, "Ok", FALSE, FALSE, ck)
    ELSE step_restore(r.m, saved_t, calls, "Ok", TRUE, r.ret.nflag, ck)

\* after nonlinear_solve returned r: test_error only `if nflag.is_ok()`
step_nonlinear_solve(r, saved_t, calls, ck) ==
    IF r.panicked THEN Attempt(r, calls, "unimplemented", FALSE, FALSE, ck)
    ELSE IF r.ret.flag = "Ok"
    THEN step_test_error(test_error(r.m, ck), saved_t, Append(calls, "test_error"), ck)
    ELSE step_restore(r.m, saved_t, calls, r.ret.flag, FALSE, FALSE, ck)

\* after predict returned r
step_predict(r, saved_t, implemented, out, ck) ==
    IF r.panicked THEN Attempt(r, <<"set_coeffs", "predict">>, "none", FALSE, FALSE, ck)
    ELSE step_nonlinear_solve(IF implemented THEN nonlinear_solve_spec(r.m, out)
                                             ELSE nonlinear_solve(r.m),
                              saved_t, <<"set_coeffs", "predict", "nonlinear_solve">>, ck)

\* after set_coeffs returned r
step_set_coeffs(r, saved_t, implemented, out) ==
    IF r.panicked THEN Attempt(r, <<"set_coeffs">>, "none", FALSE, FALSE, One)
    ELSE step_predict(predict(step_advance(r.m)), saved_t, implemented, out, r.ret.ck)

\* one pass of the loop of step(); `implemented` selects the solver
step_attempt(m, saved_t, implemented, out) ==
    step_set_coeffs(set_coeffs(m), saved_t, implemented, out)

---------------------------------------------------------------------------
(* The Newton solver, src/src/nonlinear/newton.rs.  The callbacks of the   *)
(* problem (sys, lsetup, lsolve, ctest) belong to the caller; the model    *)
(* takes their results as inputs and keeps, of the vectors, only the       *)
(* point the residual is evaluated at and the number of corrections added  *)
(* to y since it was loaded from y0.                                       *)

\* Newton::new, lines 23-32
Newton_new(maxiters) ==
    [jcur |-> FALSE, curiter |-> 0, maxiters |-> maxiters,
     niters |-> 0, nconvfails |-> 0]

\* solve() is not running.  Locals of the call: call_lsetup, jbad, ret.
\* Log of the call: pass (passes of the outer loop begun), y (corrections
\* added to y since y.assign(y0), -1 before it), at (where the residual was
\* last evaluated), err (the result of the last pass that failed), iters
\* (inner iterations begun), sysevals (calls of sys), sysfails (passes ended
\* by an error of sys or lsetup), restarts (`continue 'outer` taken),
\* lsetups (the jbad of each call of lsetup), first (call_lsetup as passed),
\* niters0 / nconvfails0 (the counters when the call began), solves (calls
\* begun so far), jcur_in (jcur when the inner loop was last entered).
NotSolving ==
    [pc |-> "idle", call_lsetup |-> FALSE, jbad |-> FALSE, ret |-> "none",
     pass |-> 0, y |-> -1, at |-> "none", err |-> "none",
     iters |-> 0, sysevals |-> 0, sysfails |-> 0, restarts |-> 0,
     lsetups |-> <<>>, first |-> FALSE,
     niters0 |-> 0, nconvfails0 |-> 0, solves |-> 0, jcur_in |-> FALSE]

\* the struct n and the activation s after a piece of solve()
Solving(n, s) == [n |-> n, s |-> s]

\* solve() is called: lines 67-86, up to the first evaluation of the residual
solve_enter(n, s, call_lsetup) ==
    Solving(n, [NotSolving EXCEPT
                   !.pc = "sys0", !.call_lsetup = call_lsetup, !.first = call_lsetup,
                   !.jbad = FALSE, !.pass = 1,
                   !.niters0 = n.niters, !.nconvfails0 = n.nconvfails,
                   !.solves = s.solves + 1])

\* a variant of solve_outer that restarts whatever jcur is; C12 does not hold of it
solve_outer_always(n, s, e) ==
    IF e = "ConvergenceRecover"
    THEN Solving([n EXCEPT !.nconvfails = @ + 1],
                 [s EXCEPT !.pc = "sys0", !.call_lsetup = TRUE, !.jbad = TRUE,
                           !.err = e, !.restarts = @ + 1, !.pass = @ + 1])
    ELSE Solving([n EXCEPT !.nconvfails = @ + 1],
                 [s EXCEPT !.pc = "returned", !.ret = e, !.err = e])

\* a variant of solve_outer that does not count the failure it returns;
\* C13 does not hold of it
solve_outer_uncounted(n, s, e) ==
    IF e = "ConvergenceRecover" /\ ~n.jcur
    THEN Solving([n EXCEPT !.nconvfails = @ + 1],
                 [s EXCEPT !.pc = "sys0", !.call_lsetup = TRUE, !.jbad = TRUE,
                           !.err = e, !.restarts = @ + 1, !.pass = @ + 1])
    ELSE Solving(n, [s EXCEPT !.pc = "returned", !.ret = e, !.err = e])

\* a pass ended with the error e: lines 150-177
solve_outer(n, s, e) ==
    IF e = "ConvergenceRecover" /\ ~n.jcur
    THEN Solving([n EXCEPT !.nconvfails = @ + 1],
                 [s EXCEPT !.pc = "sys0", !.call_lsetup = TRUE, !.jbad = TRUE,
                           !.err = e, !.restarts = @ + 1, !.pass = @ + 1])
    ELSE Solving([n EXCEPT !.nconvfails = @ + 1],
                 [s EXCEPT !.pc = "returned", !.ret = e, !.err = e])

\* a variant of solve_iterate that counts nothing; C11 does not hold of it
solve_iterate_uncounted(n, s) ==
    Solving(n, [s EXCEPT !.pc = "lsolve", !.iters = @ + 1])

\* an inner iteration begins: lines 106-110, up to the call of lsolve
solve_iterate(n, s) ==
    Solving([n EXCEPT !.niters = @ + 1],
            [s EXCEPT !.pc = "lsolve", !.iters = @ + 1])

\* the inner loop is entered: lines 100-106
solve_load(n, s) ==
    solve_iterate([n EXCEPT !.curiter = 0], [s EXCEPT !.y = 0, !.jcur_in = n.jcur])

\* sys(y0) has returned r: lines 88-99
solve_sys0(n, s, r) ==
    IF r.res # "Ok"
    THEN solve_outer(n, [s EXCEPT !.sysevals = @ + 1, !.at = "y0",
                                  !.sysfails = @ + 1], r.res)
    ELSE IF s.call_lsetup
    THEN Solving(n, [s EXCEPT !.sysevals = @ + 1, !.at = "y0", !.pc = "lsetup"])
    ELSE solve_load(n, [s EXCEPT !.sysevals = @ + 1, !.at = "y0"])

\* lsetup(y0, delta, jbad) has returned r: lines 92-106
solve_lsetup(n, s, r) ==
    IF r.res # "Ok"
    THEN solve_outer(n, [s EXCEPT !.lsetups = Append(@, s.jbad),
                                  !.sysfails = @ + 1], r.res)
    ELSE solve_load([n EXCEPT !.jcur = r.val],
                    [s EXCEPT !.lsetups = Append(@, s.jbad)])

\* lsolve(y, delta) has returned r: lines 113-117, up to the call of ctest
solve_lsolve(n, s, r) ==
    IF r.res # "Ok"
    THEN solve_outer(n, s, r.res)
    ELSE Solving(n, [s EXCEPT !.y = @ + 1, !.pc = "ctest"])

\* a variant of solve_ctest that leaves jcur as it is on convergence; C27
\* does not hold of it
solve_ctest_kept(n, s, r) ==
    IF r.res # "Ok"
    THEN solve_outer(n, s, r.res)
    ELSE IF r.val
    THEN Solving(n, [s EXCEPT !.pc = "returned", !.ret = "Ok"])
    ELSE IF n.curiter + 1 >= n.maxiters
    THEN solve_outer([n EXCEPT !.curiter = @ + 1], s, "ConvergenceRecover")
    ELSE Solving([n EXCEPT !.curiter = @ + 1], [s EXCEPT !.pc = "sys"])

\* ctest(y, delta, tol, w) has returned r: lines 117-146
solve_ctest(n, s, r) ==
    IF r.res # "Ok"
    THEN solve_outer(n, s, r.res)
    ELSE IF r.val
    THEN Solving([n EXCEPT !.jcur = FALSE],
                 [s EXCEPT !.pc = "returned", !.ret = "Ok"])
    ELSE IF n.curiter + 1 >= n.maxiters
    THEN solve_outer([n EXCEPT !.curiter = @ + 1], s, "ConvergenceRecover")
    ELSE Solving([n EXCEPT !.curiter = @ + 1], [s EXCEPT !.pc = "sys"])

\* sys(y) has returned r: lines 132-144
solve_sys(n, s, r) ==
    IF r.res # "Ok"
    THEN solve_outer(n, [s EXCEPT !.sysevals = @ + 1, !.at = "y",
                                  !.sysfails = @ + 1], r.res)
    ELSE solve_iterate(n, [s EXCEPT !.sysevals = @ + 1, !.at = "y"])

---------------------------------------------------------------------------
(* States the tests put the integrator in: a constructed Ida whose step    *)
(* data are then assigned (as test_restore1, test_complete_step, ... do).  *)

MaxOps == 3          \* operations performed in one run of the model
MaxIters == 2        \* the largest maxiters a Newton solver is constructed with

\* the arguments of Ida::new
Yy0 == <<R(8), R(-4)>>
Yp0 == <<R(4), R(2)>>

\* a divided-difference history, rows 0..5
PhiSample ==
    [j \in Rows |-> CASE j = 0 -> Yy0
                      [] j = 1 -> Yp0
                      [] j = 2 -> <<R(-2), R(2)>>
                      [] j = 3 -> <<R(2), R(-1)>>
                      [] j = 4 -> <<R(1), R(1)>>
                      [] OTHER -> <<R(-1), R(1)>>]

\* H(k) = 1 + 1/2 + ... + 1/k
RECURSIVE Harmonic(_)
Harmonic(k) == IF k = 0 THEN Zero ELSE RAdd(Harmonic(k - 1), Rat(1, k))

\* The step data after a run of steps of constant size h: psi[i] = (i+1) h,
\* alpha[i] = sigma[i] = 1/(i+1), beta[i] = 1, gamma[i] = H(i)/h.
SteadyState(kk, kused, ns, hh, hused) ==
    [new(Yy0, Yp0) EXCEPT
        !.ida_phi = PhiSample,
        !.ida_psi = [i \in Rows |-> RMul(R(i + 1), hused)],
        !.ida_alpha = [i \in Rows |-> Rat(1, i + 1)],
        !.ida_beta = [i \in Rows |-> One],
        !.ida_sigma = [i \in Rows |-> Rat(1, i + 1)],
        !.ida_gamma = [i \in Rows |-> RDiv(Harmonic(i), hused)],
        !.ida_ewt = <<R(1), R(2)>>,
        !.ida_kk = kk, !.ida_kused = kused, !.ida_knew = kk, !.ida_ns = ns,
        !.ida_phase = 1, !.ida_nst = 3,
        !.ida_hh = hh, !.ida_hused = hused, !.ida_tn = R(6),
        !.ida_cj = RDiv(Harmonic(kused), hused), !.ida_cjlast = RDiv(Harmonic(kused), hused)]

\* step() is not running
Idle == [pc |-> "idle", saved_t |-> Zero, natt |-> 0, ncf |-> 0, nef |-> 0,
         calls |-> <<>>, nls |-> "none", tested |-> FALSE, nflag |-> FALSE]

NoOp(m) == [op |-> "none", arg |-> <<>>, ret |-> Unit, pre |-> m]

\* ida is in state m and nothing has been done yet
Start(m) ==
    /\ ida = m
    /\ h1 = NoOp(m)
    /\ h2 = NoOp(m)
    /\ panic = FALSE
    /\ nops = 0
    /\ st = Idle
    /\ newton = Newton_new(MaxIters)
    /\ sv = NotSolving

\* an engine operation named op, called with the arguments arg (a sequence
\* of scalars), with result res, as one of at most max operations
ApplyWithin(max, op, arg, res) ==
    /\ ~panic
    /\ nops < max
    /\ ida' = res.m
    /\ h1' = [op |-> op, arg |-> arg, ret |-> res.ret, pre |-> ida]
    /\ h2' = h1
    /\ panic' = res.panicked
    /\ nops' = nops + 1
    /\ UNCHANGED <<st, newton, sv>>

Apply(op, arg, res) == ApplyWithin(MaxOps, op, arg, res)

StepSizes == {R(1), R(2)}
Times == {R(5), R(6)}

SetCoeffs == Apply("set_coeffs", <<>>, set_coeffs(ida))

Restore == \E saved_t \in Times : Apply("restore", <<saved_t>>, restore(ida, saved_t))

---------------------------------------------------------------------------
(* Coefficient setup and its undoing.                                      *)

InitCoeffs ==
    \E kk \in 1 .. MAXORD_DEFAULT, hh \in StepSizes, hused \in StepSizes :
    \E kused \in {kk - 1, kk} :
    \E ns \in {n \in {0, 1, kk + 1, kk + 2} : n <= kused + 2} :
        Start(SteadyState(kk, kused, ns, hh, hused))

NextCoeffs == SetCoeffs \/ Restore

SpecCoeffs == InitCoeffs /\ [][NextCoeffs]_vars

\* C1 (as claimed): for 1 <= kk <= maxord and hh # 0, set_coeffs followed at
\* once by restore leaves every row of phi and psi[0..kk-1] as they were
\* before set_coeffs, and leaves beta as set_coeffs computed it.
C1_RoundTripIdentity ==
    (/\ h1.op = "restore" /\ h2.op = "set_coeffs" /\ ~panic
     /\ 1 <= h2.pre.ida_kk /\ h2.pre.ida_kk <= h2.pre.ida_maxord
     /\ RNe(h2.pre.ida_hh, Zero))
    => /\ \A j \in Rows : ida.ida_phi[j] = h2.pre.ida_phi[j]
       /\ \A j \in 0 .. (h2.pre.ida_kk - 1) : ida.ida_psi[j] = h2.pre.ida_psi[j]
       /\ ida.ida_beta = h1.pre.ida_beta

---------------------------------------------------------------------------
(* The step loop.                                                          *)

MaxAttempts == 12    \* passes of the loop of step() followed in one call

\* a constructed Ida given a first step size and error weights
Fresh(hh) == [new(Yy0, Yp0) EXCEPT !.ida_hh = hh, !.ida_ewt = <<R(1), R(2)>>]

\* corrections the solver may leave in ee
EeSamples == {<<R(0), R(0)>>, <<R(8), R(4)>>}

\* what the solver may report at state m
NlsOutcomes(m) ==
    [flag : {"Ok"}, ee : EeSamples]
        \cup [flag : {"ConvergenceRecover", "IllegalInput"}, ee : {m.ida_ee}]

Range(f) == {f[i] : i \in DOMAIN f}

\* step() is entered: lines 437-454
StepEnter ==
    /\ ~panic
    /\ st.pc = "idle"
    /\ ida' = step_begin(ida)
    /\ st' = [Idle EXCEPT !.pc = "loop", !.saved_t = ida.ida_tn]
    /\ UNCHANGED <<h1, h2, panic, nops, newton, sv>>

\* the pass a is taken: the struct, and the log of this call's attempts
StepRecord(a) ==
    /\ ida' = a.m
    /\ panic' = a.panicked
    /\ st' = [st EXCEPT
                 !.natt = @ + 1,
                 !.ncf = IF a.nls \in {"ConvergenceRecover", "IllegalInput"} THEN @ + 1 ELSE @,
                 !.nef = IF a.tested /\ a.nflag THEN @ + 1 ELSE @,
                 !.calls = a.calls, !.nls = a.nls,
                 !.tested = a.tested, !.nflag = a.nflag]

\* one pass of the loop, lines 462-520; the pass ends in `continue`
StepAttempt ==
    /\ ~panic
    /\ st.pc = "loop"
    /\ st.natt < MaxAttempts
    /\ \E implemented \in BOOLEAN, out \in NlsOutcomes(ida) :
          StepRecord(step_attempt(ida, st.saved_t, implemented, out))
    /\ UNCHANGED <<h1, h2, nops, newton, sv>>

InitStep ==
    \E tstopset \in BOOLEAN :
       \/ \E hh \in StepSizes :
             Start([Fresh(hh) EXCEPT !.ida_tstopset = tstopset, !.ida_tstop = Rat(1, 2)])
       \/ \E kk \in 1 .. MAXORD_DEFAULT : \E ns \in {1, kk + 2} :
             Start([SteadyState(kk, kk, ns, R(1), R(1)) EXCEPT
                       !.ida_tstopset = tstopset, !.ida_tstop = R(7)])

NextStep == StepEnter \/ StepAttempt

SpecStep == InitStep /\ [][NextStep]_vars

\* C2 (as claimed): while step() is still looping, the convergence failures
\* of this call do not exceed maxncf and its error test failures do not
\* exceed maxnef (beyond them step() has returned the nonrecoverable error).
C2_RetriesBounded ==
    (st.pc = "loop" /\ ~panic)
        => (st.ncf <= ida.ida_maxncf /\ st.nef <= ida.ida_maxnef)

\* C3 (as claimed): a pass whose nonlinear solve succeeded and whose error
\* test passed does not call restore, calls complete_step, and step() has
\* returned after it.
C3_AcceptedAttemptCommits ==
    (st.nls = "Ok" /\ st.tested /\ ~st.nflag /\ ~panic)
        => /\ "restore" \notin Range(st.calls)
           /\ "complete_step" \in Range(st.calls)
           /\ st.pc = "returned"

---------------------------------------------------------------------------
(* Dense output.                                                           *)

Predict == Apply("predict", <<>>, predict(ida))

\* query times, as multiples of hused away from tn
QueryOffsets == {R(-2), Rat(-17, 16), R(-1), Rat(-1, 2), R(0), R(1)}

\* get_solution at tn + c hused for a c in offsets
GetSolutionAt(offsets) ==
    \E c \in offsets :
       Apply("get_solution", <<RAdd(ida.ida_tn, RMul(c, ida.ida_hused))>>,
             get_solution(ida, RAdd(ida.ida_tn, RMul(c, ida.ida_hused))))

GetSolution == GetSolutionAt(QueryOffsets)

InitDense ==
    \E hh \in {R(1), R(-1), R(2)} :
       \/ Start(Fresh(hh))
       \/ \E kk \in 1 .. MAXORD_DEFAULT : \E kused \in {kk - 1, kk} \ {0} :
             Start(SteadyState(kk, kused, 1, hh, hh))

NextDense == Predict \/ Restore \/ GetSolution

SpecDense == InitDense /\ [][NextDense]_vars

\* t lies outside the window [tn - hused - tfuzz, tn] of the last step of m,
\* the window being oriented by the sign of hh
OutsideWindow(m, t) ==
    LET tfuzz0 == RMul(RMul(R(100), epsilon), RAdd(RAbs(m.ida_tn), RAbs(m.ida_hh)))
        tfuzz == IF RLt(m.ida_hh, Zero) THEN RNeg(tfuzz0) ELSE tfuzz0
        tp == RSub(RSub(m.ida_tn, m.ida_hused), tfuzz)
    IN  \/ RLt(RMul(RSub(t, tp), m.ida_hh), Zero)
        \/ RGt(RMul(RSub(t, m.ida_tn), m.ida_hh), Zero)

\* C4 (as claimed): get_solution(t) with t outside the window of the last
\* step, on either side, returns BadTimeValue carrying (t, tn - hused, tn).
C4_BadTimeOnEitherSide ==
    (h1.op = "get_solution" /\ ~panic /\ OutsideWindow(h1.pre, h1.arg[1]))
        => /\ ~h1.ret.ok
           /\ h1.ret.kind = "BadTimeValue"
           /\ h1.ret.t = h1.arg[1]
           /\ h1.ret.tdiff = RSub(h1.pre.ida_tn, h1.pre.ida_hused)
           /\ h1.ret.tcurr = h1.pre.ida_tn

\* C5 (as claimed): whatever engine operations came before, get_solution at
\* t = tn with kused in 0..=maxord succeeds and returns yret = phi[0].
C5_SolutionAtTnIsPhi0 ==
    (/\ h1.op = "get_solution" /\ ~panic
     /\ h1.arg[1] = h1.pre.ida_tn
     /\ h1.pre.ida_kused <= h1.pre.ida_maxord)
        => /\ h1.ret.ok
           /\ h1.ret.yret = h1.pre.ida_phi[0]

---------------------------------------------------------------------------
(* The local error test.                                                   *)

\* corrections left in ee by the solver
ErrSamples == {<<R(0), R(0)>>, <<R(8), R(4)>>, <<R(4), R(-4)>>, <<R(2), R(-2)>>,
               <<R(-2), R(1)>>, <<R(1), R(-1)>>}

\* values of ck
CkSamples == {R(0), Rat(1, 8), R(1)}

TestError == \E ck \in CkSamples : Apply("test_error", <<ck>>, test_error(ida, ck))

InitError ==
    \E kk \in 1 .. MAXORD_DEFAULT, ee \in ErrSamples, suppressalg \in BOOLEAN :
        Start([SteadyState(kk, kk, 1, R(1), R(1)) EXCEPT
                  !.ida_ee = ee, !.ida_suppressalg = suppressalg,
                  !.ida_id = <<TRUE, FALSE>>])

NextError == TestError

SpecError == InitError /\ [][NextError]_vars

\* ck * enorm_k of the test_error call recorded in h
ErrorTestValue(h) ==
    RMul(h.arg[1], wrms_norm(h.pre, h.pre.ida_ee, h.pre.ida_ewt, h.pre.ida_suppressalg))

\* C6 (as claimed): the third value returned by test_error(ck) is true
\* exactly when ck * enorm_k <= 1 and false exactly when ck * enorm_k > 1.
C6_ThirdValueIsPassed ==
    (h1.op = "test_error" /\ ~panic)
        => (h1.ret.nflag <=> RLe(ErrorTestValue(h1), One))

\* C6 (amended): the third value returned by test_error(ck) is the failure
\* flag: it is true exactly when ck * enorm_k > 1 and false otherwise.
C6_ThirdValueIsFailed ==
    (h1.op = "test_error" /\ ~panic)
        => (h1.ret.nflag <=> RGt(ErrorTestValue(h1), One))

\* two test_error calls in a row, the first at the boundary ck * enorm_k = 1
\* (flag false), the second beyond it (flag true)
C6_Witness ==
    /\ h1.op = "test_error" /\ h2.op = "test_error" /\ ~panic
    /\ ErrorTestValue(h2) = One /\ ~h2.ret.nflag
    /\ RGt(ErrorTestValue(h1), One) /\ h1.ret.nflag

\* the truncation error estimates of the test_error call recorded in h1
C7_terr_k == RMul(R(h1.pre.ida_kk + 1), h1.ret.err_k)
C7_terr_km1 == RMul(R(h1.pre.ida_kk), h1.ret.err_km1)
C7_terr_km2 == RMul(R(h1.pre.ida_kk - 1), test_error_err_km2(h1.pre))

\* C7: test_error leaves kk unchanged and sets knew to kk or kk-1; knew is
\* kk-1 exactly when kk = 2 and terr_km1 <= 0.5 terr_k, or kk > 2 and
\* max(terr_km1, terr_km2) <= terr_k; for kk = 1 knew = kk and the returned
\* err_km1 is 0.
C7_OrderSuggestion ==
    (h1.op = "test_error" /\ ~panic)
        => /\ ida.ida_kk = h1.pre.ida_kk
           /\ ida.ida_knew \in {h1.pre.ida_kk, h1.pre.ida_kk - 1}
           /\ (ida.ida_knew = h1.pre.ida_kk - 1)
                  <=> \/ (h1.pre.ida_kk = 2 /\ RLe(C7_terr_km1, RMul(Rat(1, 2), C7_terr_k)))
                      \/ (h1.pre.ida_kk > 2 /\ RLe(RMax(C7_terr_km1, C7_terr_km2), C7_terr_k))
           /\ (h1.pre.ida_kk = 1 => (ida.ida_knew = 1 /\ h1.ret.err_km1 = Zero))

\* the tie at order 2: terr_km1 is exactly half of a nonzero terr_k and the
\* order is lowered
C7_Witness ==
    /\ h1.op = "test_error" /\ ~panic
    /\ h1.pre.ida_kk = 2 /\ RGt(C7_terr_k, Zero)
    /\ C7_terr_km1 = RMul(Rat(1, 2), C7_terr_k)
    /\ ida.ida_knew = 1

---------------------------------------------------------------------------
(* Completing a step.                                                      *)

MaxCompletes == 2    \* complete_step calls made in one run of the model

\* error estimates handed to complete_step; 9999/20000 makes
\* 2 err + 0.0001 equal to 1
ErrK == {R(0), Rat(1, 8), Rat(9999, 20000), R(5)}
ErrKm1 == {R(0), R(5)}

CompleteStep ==
    \E err_k \in ErrK, err_km1 \in ErrKm1, checks \in BOOLEAN :
        Apply("complete_step", <<err_k, err_km1>>, complete_step(ida, err_k, err_km1, checks))

\* the orders test_error may have suggested at order kk
Suggested(kk) == IF kk > 1 THEN {kk - 1, kk} ELSE {kk}

\* phase, knew, hh and hmax_inv before a step is completed
Completing(m, phase, knew, hh, hmax_inv) ==
    [m EXCEPT !.ida_ee = <<R(8), R(4)>>, !.ida_phase = phase, !.ida_knew = knew,
              !.ida_hh = hh, !.ida_hmax_inv = hmax_inv]

InitComplete ==
    \/ Start([Fresh(R(1)) EXCEPT !.ida_ee = <<R(8), R(4)>>])
    \/ \E kk \in 1 .. MAXORD_DEFAULT, phase \in {0, 1} :
       \E kused \in {kk - 1, kk, kk + 1}, ns \in {1, kk + 2}, knew \in Suggested(kk) :
       \E h \in {<<R(1), Zero>>, <<R(2), Rat(1, 3)>>} :
           Start(Completing(SteadyState(kk, kused, ns, R(1), R(1)), phase, knew, h[1], h[2]))

NextComplete == nops < MaxCompletes /\ CompleteStep

SpecComplete == InitComplete /\ [][NextComplete]_vars

RECURSIVE C8_rolled(_, _, _, _)
\* row j <= k of the history rolled forward: phi[k] + ee for j = k, and
\* phi[j] plus the rolled row j+1 below it
C8_rolled(phi, ee, k, j) ==
    IF j >= k THEN VAdd(phi[k], ee) ELSE VAdd(phi[j], C8_rolled(phi, ee, k, j + 1))

\* C8 (as claimed): complete_step rolls the history forward: with k the order
\* on entry, phi[k+1] = ee if k < maxord, phi[k] becomes phi[k] + ee, phi[j]
\* becomes phi[j] + the updated phi[j+1] for j = k-1 down to 0, and the rows
\* above k+1 are unchanged.
C8_HistoryRolledForward ==
    (h1.op = "complete_step" /\ ~panic)
        => \A j \in Rows :
              ida.ida_phi[j] =
                 IF j <= h1.pre.ida_kk
                 THEN C8_rolled(h1.pre.ida_phi, h1.pre.ida_ee, h1.pre.ida_kk, j)
                 ELSE IF j = h1.pre.ida_kk + 1 /\ h1.pre.ida_kk < h1.pre.ida_maxord
                 THEN h1.pre.ida_ee
                 ELSE h1.pre.ida_phi[j]

\* the error estimate at the order chosen by the complete_step call h that
\* led to the state post: err_kp1 if the order was raised, err_km1 if it
\* was lowered, err_k otherwise
C10_err_knew(h, post) ==
    IF post.ida_kk = h.pre.ida_kk + 1
    THEN RDiv(wrms_norm(h.pre, VSub(h.pre.ida_ee, h.pre.ida_phi[h.pre.ida_kk + 1]),
                        h.pre.ida_ewt, h.pre.ida_suppressalg),
              R(h.pre.ida_kk + 2))
    ELSE IF post.ida_kk = h.pre.ida_kk - 1 THEN h.arg[2]
    ELSE h.arg[1]

\* rr = (2 err_knew + 0.0001)^(-1/(kk+1)), kk the order after the decision
C10_rr(h, post) ==
    powf(RAdd(RMul(R(2), C10_err_knew(h, post)), Rat(1, 10000)), post.ida_kk + 1)

\* the rule on rr: hh0 the step size on entry, hh1 and rr1 the step size and
\* the rr left by the call
C10_Rule(rr, hh0, hh1, rr1, hmax_inv) ==
    /\ RGe(rr, R(2))
          => /\ rr1 = rr
             /\ \/ /\ RLe(RMul(RAbs(RMul(R(2), hh0)), hmax_inv), One)
                   /\ hh1 = RMul(R(2), hh0)
                \/ /\ RGt(RMul(RAbs(RMul(R(2), hh0)), hmax_inv), One)
                   /\ hh1 = RDiv(RMul(R(2), hh0), RMul(RAbs(RMul(R(2), hh0)), hmax_inv))
             /\ RLe(RMul(RAbs(hh1), hmax_inv), One)
    /\ RLe(rr, One)
          => /\ rr1 = RMax(Rat(1, 2), RMin(rr, Rat(9, 10)))
             /\ RGe(rr1, Rat(1, 2)) /\ RLe(rr1, Rat(9, 10))
             /\ hh1 = RMul(hh0, rr1)
    /\ (RGt(rr, One) /\ RLt(rr, R(2)))
          => (hh1 = hh0 /\ rr1 = rr)

\* new hh / old hh lies in [0.5, 0.9], is 1, or lies in (1, 2]
C10_Ratio(q) ==
    \/ (RGe(q, Rat(1, 2)) /\ RLe(q, Rat(9, 10)))
    \/ q = One
    \/ (RGt(q, One) /\ RLe(q, R(2)))

\* C10: in the steady phase complete_step changes the step size by the rule
\* on rr only: doubled and limited by hmax_inv when rr >= 2, multiplied by rr
\* restricted to [0.5, 0.9] when rr <= 1, unchanged when 1 < rr < 2; the
\* ratio of new to old hh is in [0.5, 0.9], 1, or in (1, 2].
C10_StepSizeRule ==
    (h1.op = "complete_step" /\ ~panic /\ ida.ida_phase = 1)
        => /\ C10_Rule(C10_rr(h1, ida), h1.pre.ida_hh, ida.ida_hh, ida.ida_rr,
                       h1.pre.ida_hmax_inv)
           /\ C10_Ratio(RDiv(ida.ida_hh, h1.pre.ida_hh))

\* two steady-phase calls in a row: the first doubles hh and hmax_inv limits
\* the result, the second shrinks hh by an rr that had to be restricted
C10_Witness ==
    /\ h1.op = "complete_step" /\ h2.op = "complete_step" /\ ~panic
    /\ h1.pre.ida_phase = 1 /\ ida.ida_phase = 1
    /\ RGe(C10_rr(h2, h1.pre), R(2))
    /\ h1.pre.ida_hh # RMul(R(2), h2.pre.ida_hh)
    /\ RLe(C10_rr(h1, ida), One)
    /\ ida.ida_rr # C10_rr(h1, ida)

---------------------------------------------------------------------------
(* The engine operations in any order.                                     *)

MaxEngineOps == 2    \* engine operations performed in one run of the model

Reset == Apply("reset", <<>>, reset(ida))

InitEngine ==
    \/ Start([Fresh(R(1)) EXCEPT !.ida_ee = <<R(8), R(4)>>])
    \/ \E kk \in {1, 2, 3} :
       \E s \in {<<kk, R(1)>>, <<kk - 1, R(2)>>} :
           Start([SteadyState(kk, s[1], 1, s[2], R(1)) EXCEPT !.ida_ee = <<R(8), R(4)>>])

NextEngine ==
    \/ (nops < MaxEngineOps /\ SetCoeffs)
    \/ (nops < MaxEngineOps /\ Predict)
    \/ (nops < MaxEngineOps /\ TestError)
    \/ (nops < MaxEngineOps /\ Restore)
    \/ (nops < MaxEngineOps /\ Reset)
    \/ (nops < MaxEngineOps /\ CompleteStep)
    \/ (nops < MaxEngineOps /\ GetSolutionAt({R(-1), R(0), R(1)}))

SpecEngine == InitEngine /\ [][NextEngine]_vars

\* C9: a complete_step call increases nst by exactly 1, sets kused to the kk
\* and hused to the hh it was entered with, and does not modify ee, ewt,
\* knew, maxord and hmax_inv; no engine operation decreases nst.
C9_CompleteStepFrame ==
    /\ (h1.op = "complete_step" /\ ~panic)
           => /\ ida.ida_nst = h1.pre.ida_nst + 1
              /\ ida.ida_kused = h1.pre.ida_kk
              /\ ida.ida_hused = h1.pre.ida_hh
              /\ ida.ida_ee = h1.pre.ida_ee
              /\ ida.ida_ewt = h1.pre.ida_ewt
              /\ ida.ida_knew = h1.pre.ida_knew
              /\ ida.ida_maxord = h1.pre.ida_maxord
              /\ ida.ida_hmax_inv = h1.pre.ida_hmax_inv
    /\ ida.ida_nst >= h1.pre.ida_nst
    /\ h1.pre.ida_nst >= h2.pre.ida_nst

\* a complete_step call that changed kused and hused, made after another
\* engine operation
C9_Witness ==
    /\ h1.op = "complete_step" /\ h2.op \notin {"none", "complete_step"} /\ ~panic
    /\ h1.pre.ida_kused # h1.pre.ida_kk
    /\ h1.pre.ida_hused # h1.pre.ida_hh
    /\ ida.ida_kused = h1.pre.ida_kk
    /\ ida.ida_hused = h1.pre.ida_hh
    /\ ida.ida_nst = h2.pre.ida_nst + 1

---------------------------------------------------------------------------
(* The Newton solver under every behaviour of its problem.                 *)
MaxSolves == 2       \* calls of solve() in one run of the model
MaxRestarts == 1     \* restarts of the outer loop followed within one call

\* what a callback may return: Ok, the recoverable error, or another error
\* (IllegalInput stands for every error that is not ConvergenceRecover)
Errors == {"ConvergenceRecover", "IllegalInput"}
UnitResults == [res : {"Ok"} \cup Errors, val : {FALSE}]
BoolResults == [res : {"Ok"}, val : BOOLEAN] \cup [res : Errors, val : {FALSE}]

\* solve() moves on to r
SolveStep(r) ==
    /\ r.s.restarts <= MaxRestarts
    /\ newton' = r.n
    /\ sv' = r.s
    /\ UNCHANGED <<ida, h1, h2, panic, nops, st>>

SolveCall ==
    /\ sv.pc \in {"idle", "returned"}
    /\ sv.solves < MaxSolves
    /\ \E call_lsetup \in BOOLEAN : SolveStep(solve_enter(newton, sv, call_lsetup))

SolveSys0 ==
    /\ sv.pc = "sys0"
    /\ \E r \in UnitResults : SolveStep(solve_sys0(newton, sv, r))

SolveLsetup ==
    /\ sv.pc = "lsetup"
    /\ \E r \in BoolResults : SolveStep(solve_lsetup(newton, sv, r))

SolveLsolve ==
    /\ sv.pc = "lsolve"
    /\ \E r \in UnitResults : SolveStep(solve_lsolve(newton, sv, r))

SolveCtest ==
    /\ sv.pc = "ctest"
    /\ \E r \in BoolResults : SolveStep(solve_ctest(newton, sv, r))

SolveSys ==
    /\ sv.pc = "sys"
    /\ \E r \in UnitResults : SolveStep(solve_sys(newton, sv, r))

InitNewton ==
    /\ ida = Fresh(R(1))
    /\ h1 = NoOp(ida)
    /\ h2 = NoOp(ida)
    /\ panic = FALSE
    /\ nops = 0
    /\ st = Idle
    /\ \E maxiters \in 0..MaxIters : newton = Newton_new(maxiters)
    /\ sv = NotSolving

NextNewton ==
    \/ SolveCall
    \/ SolveSys0
    \/ SolveLsetup
    \/ SolveLsolve
    \/ SolveCtest
    \/ SolveSys

SpecNewton == InitNewton /\ [][NextNewton]_vars

CounterBits == 2     \* width kept for niters and nconvfails when solve() runs on

\* solve() moves on to r, however long it has run: the log of the call is
\* dropped and the usize counters keep CounterBits bits; a counter that
\* overflows wraps around, or panics in a build with overflow checks
LiveStep(r) ==
    /\ ~panic
    /\ \/ /\ newton' = [r.n EXCEPT !.niters = @ % IPow(2, CounterBits),
                                    !.nconvfails = @ % IPow(2, CounterBits)]
          /\ sv' = [r.s EXCEPT !.pass = 0, !.iters = 0, !.sysevals = 0, !.sysfails = 0,
                               !.restarts = 0, !.lsetups = <<>>,
                               !.niters0 = 0, !.nconvfails0 = 0]
          /\ panic' = FALSE
       \/ /\ (r.n.niters >= IPow(2, CounterBits) \/ r.n.nconvfails >= IPow(2, CounterBits))
          /\ panic' = TRUE
          /\ UNCHANGED <<newton, sv>>
    /\ UNCHANGED <<ida, h1, h2, nops, st>>

NextNewtonLive ==
    \/ (/\ sv.pc \in {"idle", "returned"}
        /\ sv.solves < MaxSolves
        /\ \E call_lsetup \in BOOLEAN : LiveStep(solve_enter(newton, sv, call_lsetup)))
    \/ (sv.pc = "sys0" /\ \E r \in UnitResults : LiveStep(solve_sys0(newton, sv, r)))
    \/ (sv.pc = "lsetup" /\ \E r \in BoolResults : LiveStep(solve_lsetup(newton, sv, r)))
    \/ (sv.pc = "lsolve" /\ \E r \in UnitResults : LiveStep(solve_lsolve(newton, sv, r)))
    \/ (sv.pc = "ctest" /\ \E r \in BoolResults : LiveStep(solve_ctest(newton, sv, r)))
    \/ (sv.pc = "sys" /\ \E r \in UnitResults : LiveStep(solve_sys(newton, sv, r)))

\* solve() is sequential code: as long as its callbacks return, it takes its
\* next step
SpecNewtonLive == InitNewton /\ [][NextNewtonLive]_vars /\ WF_vars(NextNewtonLive)

C12_InnerLoopFails ==
    /\ sv.pc \in {"lsolve", "ctest", "sys"}
    /\ \/ sv'.pc = "sys0"
       \/ sv'.pc = "returned" /\ sv'.ret = "ConvergenceRecover"

C12_Step ==
    /\ C12_InnerLoopFails /\ ~newton.jcur =>
          /\ newton'.nconvfails = newton.nconvfails + 1
          /\ sv'.pc = "sys0" /\ sv'.pass = sv.pass + 1
          /\ sv'.call_lsetup /\ sv'.jbad
    /\ C12_InnerLoopFails /\ newton.jcur =>
          /\ sv'.pc = "returned" /\ sv'.ret = "ConvergenceRecover"
          /\ sv'.pass = sv.pass
    /\ sv.pc = "sys0" =>
          /\ sv'.at = "y0" /\ sv'.sysevals = sv.sysevals + 1
          /\ sv.pass > 1 /\ sv'.pass = sv.pass /\ sv'.pc # "returned" =>
                sv'.pc = "lsetup"
          /\ sv.pass = 1 /\ sv'.pc = "lsetup" => sv.first
    /\ sv.pc = "lsetup" =>
          /\ Len(sv'.lsetups) = Len(sv.lsetups) + 1
          /\ sv'.lsetups[Len(sv'.lsetups)] = (sv.pass > 1)
          /\ sv'.pc = "lsolve" => sv'.y = 0
    /\ Len(sv'.lsetups) > Len(sv.lsetups) => sv.pc = "lsetup"

\* C12: a pass whose inner loop ends with the recoverable convergence
\* failure is followed, if jcur is false, by one more count in nconvfails
\* and another pass, which evaluates the residual at y0, calls lsetup with
\* jbad = true and reloads y from y0; if jcur is true, solve() returns
\* ConvergenceRecover with no further pass.  In the first pass lsetup is
\* called only if the caller passed call_lsetup = true, with jbad = false.
C12_RestartOnStaleJacobian == [][C12_Step]_vars

C12_Witness ==
    /\ sv.pc = "returned"
    /\ sv.ret = "ConvergenceRecover"
    /\ sv.lsetups = <<FALSE, TRUE>>
    /\ sv.restarts = 1
    /\ sv.iters > 2
    /\ newton.jcur

C13_Step ==
    /\ newton'.nconvfails >= newton.nconvfails
    /\ sv.pc \in {"idle", "returned"} => sv'.nconvfails0 = newton.nconvfails
    /\ sv'.pc = "returned" =>
          newton'.nconvfails =
              sv'.nconvfails0 + sv'.restarts + (IF sv'.ret = "Ok" THEN 0 ELSE 1)
    /\ sv'.pc = "returned" /\ sv'.ret = "Ok" /\ sv'.pass = 1 =>
          newton'.nconvfails = sv'.nconvfails0

\* C13: nconvfails never decreases; a call of solve() raises it by the
\* number of restarts of its outer loop, plus one if it returns an error
\* of any kind; a call that converges in its first pass leaves it unchanged.
C13_ConvFailsCounted == [][C13_Step]_vars

C13_Witness ==
    /\ sv.pc = "returned"
    /\ sv.solves = 2
    /\ sv.nconvfails0 > 0
    /\ sv.restarts = 1
    /\ sv.ret = "IllegalInput"
    /\ newton.nconvfails = sv.nconvfails0 + 2

---------------------------------------------------------------------------
(* The predictor.                                                          *)

\* the sum of w[j] * phi[j] over the rows j = from, ..., to
RECURSIVE C14_Sum(_, _, _, _)
C14_Sum(phi, w, from, to) ==
    IF from > to THEN VZeros(Len(phi[0]))
    ELSE VAdd(VScale(w[from], phi[from]), C14_Sum(phi, w, from + 1, to))

\* C14 (as claimed): after predict(), yypredict is the sum of the rows
\* 0..=kk of phi, yppredict is the sum of gamma[j] * phi[j] over j in
\* 1..=kk, delta = phi[kk] + ee, and phi, ee and gamma are as before
\* (stated for the orders kk >= 1 a step is taken at).
C14_PredictorSums ==
    (h1.op = "predict" /\ ~panic /\ h1.pre.ida_kk >= 1) =>
        /\ ida.ida_yypredict =
               C14_Sum(h1.pre.ida_phi, [j \in Rows |-> One], 0, h1.pre.ida_kk)
        /\ ida.ida_yppredict =
               C14_Sum(h1.pre.ida_phi, h1.pre.ida_gamma, 1, h1.pre.ida_kk)
        /\ ida.ida_delta = VAdd(h1.pre.ida_phi[h1.pre.ida_kk], h1.pre.ida_ee)
        /\ ida.ida_phi = h1.pre.ida_phi
        /\ ida.ida_ee = h1.pre.ida_ee
        /\ ida.ida_gamma = h1.pre.ida_gamma

\* C15 (as claimed): predict() called with 1 <= kk <= maxord, kk = maxord = 5
\* included, returns without a panic.
C15_PredictNeverPanics ==
    (/\ h1.op = "predict"
     /\ 1 <= h1.pre.ida_kk
     /\ h1.pre.ida_kk <= h1.pre.ida_maxord
     /\ h1.pre.ida_maxord <= MAXORD_DEFAULT)
        => ~panic

---------------------------------------------------------------------------
(* The effect of restore.                                                  *)

\* C16: restore(saved_t) sets tn = saved_t and psi[j-1] = psi[j] - hh (psi[j]
\* as before the call) for j in 1..=kk; if ns <= kk it sets cvals[0..=kk-ns]
\* to 1/beta[ns..=kk] and multiplies row i of phi by 1/beta[i] for i in
\* ns..=kk, and if ns > kk it leaves phi and cvals alone; every other field,
\* psi[kk..] and the other rows of phi are as before the call.
C16_RestoreEffect ==
    (h1.op = "restore" /\ ~panic) =>
        ida = [h1.pre EXCEPT
                  !.ida_tn = h1.arg[1],
                  !.ida_psi = [j \in Rows |->
                                  IF j < h1.pre.ida_kk
                                  THEN RSub(h1.pre.ida_psi[j + 1], h1.pre.ida_hh)
                                  ELSE h1.pre.ida_psi[j]],
                  !.ida_phi = [i \in Rows |->
                                  IF h1.pre.ida_ns <= i /\ i <= h1.pre.ida_kk
                                  THEN VScale(RRecip(h1.pre.ida_beta[i]), h1.pre.ida_phi[i])
                                  ELSE h1.pre.ida_phi[i]],
                  !.ida_cvals = [i \in Rows |->
                                    IF i <= h1.pre.ida_kk - h1.pre.ida_ns
                                    THEN RRecip(h1.pre.ida_beta[h1.pre.ida_ns + i])
                                    ELSE h1.pre.ida_cvals[i]]]

C16_Witness ==
    /\ h1.op = "restore" /\ ~panic
    /\ h1.pre.ida_ns = 1
    /\ h1.pre.ida_kk = 3
    /\ \A i \in 1 .. 2 : h1.pre.ida_beta[i] \notin {Zero, One}
    /\ \A i \in 1 .. 2 : ida.ida_phi[i] # h1.pre.ida_phi[i]
    /\ ida.ida_phi[4] = h1.pre.ida_phi[4]
    /\ ida.ida_tn # h1.pre.ida_tn
    /\ ida.ida_psi # h1.pre.ida_psi

\* restore with ns > kk: phi is left alone
C16_WitnessUntouched ==
    /\ h1.op = "restore" /\ ~panic
    /\ h1.pre.ida_ns > h1.pre.ida_kk
    /\ ida.ida_phi = h1.pre.ida_phi

---------------------------------------------------------------------------
(* The coefficients set_coeffs leaves.                                     *)

\* the step size or the order of m differs from the last committed step
C18_Changed(m) == RNe(m.ida_hh, m.ida_hused) \/ m.ida_kk # m.ida_kused

\* C18: set_coeffs resets ns to 0 if hh != hused or kk != kused and then
\* sets ns = min(ns + 1, kused + 2); so after it 1 <= ns <= kk + 2, ns = 1
\* if the step size or the order differs from the last committed step, and
\* otherwise ns is one more than before, up to kk + 2.
C18_StepCount ==
    (h1.op = "set_coeffs" /\ ~panic) =>
        /\ ida.ida_ns = Min((IF C18_Changed(h1.pre) THEN 0 ELSE h1.pre.ida_ns) + 1,
                            h1.pre.ida_kused + 2)
        /\ 1 <= ida.ida_ns /\ ida.ida_ns <= ida.ida_kk + 2
        /\ C18_Changed(h1.pre) => ida.ida_ns = 1
        /\ ~C18_Changed(h1.pre) => ida.ida_ns = Min(h1.pre.ida_ns + 1, ida.ida_kk + 2)

C18_Witness ==
    /\ h1.op = "set_coeffs" /\ h2.op = "set_coeffs" /\ ~panic
    /\ ~C18_Changed(h2.pre)
    /\ h2.pre.ida_ns = 1
    /\ ida.ida_ns = 3
    /\ ida.ida_kk = 2

\* the recurrence of set_coeffs carried through i = 1, ..., kk
C19_Recurrence(m) ==
    set_coeffs_loop([m EXCEPT !.ida_beta[0] = One, !.ida_alpha[0] = One,
                              !.ida_gamma[0] = Zero, !.ida_sigma[0] = One,
                              !.ida_kk = m.ida_kk + 1],
                    1, m.ida_hh).m

\* C19 (as claimed): a set_coeffs that recomputes (kk + 1 >= ns) leaves in
\* alpha[i], beta[i], sigma[i] and gamma[i] the values of the recurrence for
\* every i in 0..=kk, the entries at index kk included.
C19_CoefficientsThroughOrder ==
    (/\ h1.op = "set_coeffs" /\ ~panic
     /\ 1 <= h1.pre.ida_kk /\ h1.pre.ida_kk <= h1.pre.ida_maxord
     /\ h1.pre.ida_kk + 1 >= ida.ida_ns)
        => \A i \in 0 .. h1.pre.ida_kk :
              /\ ida.ida_alpha[i] = C19_Recurrence(h1.pre).ida_alpha[i]
              /\ ida.ida_beta[i] = C19_Recurrence(h1.pre).ida_beta[i]
              /\ ida.ida_sigma[i] = C19_Recurrence(h1.pre).ida_sigma[i]
              /\ ida.ida_gamma[i] = C19_Recurrence(h1.pre).ida_gamma[i]

\* C20 (as claimed): a set_coeffs that recomputes (kk + 1 >= ns) leaves
\* psi[0] = hh and psi[i] = (psi[i-1] before the call) + hh for 1 <= i <= kk;
\* and with hh > 0, after any sequence of set_coeffs and restore from a
\* history of steps of constant size, psi[0..=kk] is non-decreasing.
C20_PsiAccumulates ==
    /\ (/\ h1.op = "set_coeffs" /\ ~panic
        /\ 1 <= h1.pre.ida_kk /\ h1.pre.ida_kk <= h1.pre.ida_maxord
        /\ h1.pre.ida_kk + 1 >= ida.ida_ns)
           => /\ ida.ida_psi[0] = ida.ida_hh
              /\ \A i \in 1 .. h1.pre.ida_kk :
                    ida.ida_psi[i] = RAdd(h1.pre.ida_psi[i - 1], ida.ida_hh)
    /\ (~panic /\ RGt(ida.ida_hh, Zero))
           => \A i \in 1 .. ida.ida_kk : RLe(ida.ida_psi[i - 1], ida.ida_psi[i])

---------------------------------------------------------------------------
(* The order over a run of steps: test_error, then complete_step.          *)
MaxOrderOps == 6     \* operations performed in one run of this model

\* corrections left in ee by the solver: none, a large one, and two that
\* equal a row of the history
OrderEe == {<<R(0), R(0)>>, <<R(8), R(4)>>, <<R(2), R(-1)>>, <<R(1), R(1)>>}

InitOrder ==
    \E maxord \in {3, MAXORD_DEFAULT} :
    \E kk \in 1 .. maxord, phase \in {0, 1}, ee \in OrderEe :
    \E kused \in {kk - 1, kk}, ns \in {1, kk + 2} :
        Start([SteadyState(kk, kused, ns, R(1), R(1)) EXCEPT
                  !.ida_maxord = maxord, !.ida_phase = phase, !.ida_ee = ee])

NextOrder ==
    \/ (/\ h1.op \in {"none", "complete_step"}
        /\ \E ck \in CkSamples :
              ApplyWithin(MaxOrderOps, "test_error", <<ck>>, test_error(ida, ck)))
    \/ (/\ h1.op = "test_error"
        /\ \E checks \in BOOLEAN :
              ApplyWithin(MaxOrderOps, "complete_step", <<h1.ret.err_k, h1.ret.err_km1>>,
                          complete_step(ida, h1.ret.err_k, h1.ret.err_km1, checks)))

SpecOrder == InitOrder /\ [][NextOrder]_vars

\* C17: from a state with 1 <= kk <= maxord <= 5, through steps in which
\* complete_step follows test_error at the same order, 1 <= kk <= maxord
\* stays true; the row kk + 1 that complete_step reads below the maximum
\* order is one of the MXORDP1 rows of phi, so that complete_step stops
\* short only on the difference kk - kused, never on a row of phi.
C17_OrderInRange ==
    /\ 1 <= ida.ida_kk
    /\ ida.ida_kk <= ida.ida_maxord
    /\ (h1.op = "complete_step" /\ h1.pre.ida_kk < h1.pre.ida_maxord)
           => h1.pre.ida_kk + 1 \in Rows
    /\ (h1.op = "complete_step" /\ panic)
           => usize_sub(h1.pre.ida_kk, h1.pre.ida_kused).underflow

\* the third step of a run lowers the order that the second one raised
C17_Witness ==
    /\ h1.op = "complete_step" /\ ~panic
    /\ nops = 6
    /\ h1.pre.ida_kk = h1.pre.ida_kused + 1
    /\ ida.ida_kk = h1.pre.ida_kk - 1

---------------------------------------------------------------------------
(* The estimate of test_error at order kk-2.                               *)

\* the vector C21 names: phi[kk-1] + phi[kk] + ee
C21_Vector(m) == VAdd(m.ida_phi[m.ida_kk - 1], VAdd(m.ida_phi[m.ida_kk], m.ida_ee))

\* err_km2 as C21 states it: sigma[kk-2] * WRMS(phi[kk-1] + phi[kk] + ee, ewt)
C21_err_km2(m) ==
    RMul(m.ida_sigma[m.ida_kk - 2],
         wrms_norm(m, C21_Vector(m), m.ida_ewt, m.ida_suppressalg))

\* C21 (as claimed): for kk > 2, test_error takes the estimate at order
\* kk-2 from phi[kk-1] + phi[kk] + ee: that vector is what it leaves in
\* delta, and the order it suggests is the one that follows from
\* err_km2 = sigma[kk-2] * WRMS(phi[kk-1] + phi[kk] + ee, ewt).
C21_EstimateAtOrderKm2 ==
    (h1.op = "test_error" /\ ~panic /\ h1.pre.ida_kk > 2) =>
        /\ ida.ida_delta = C21_Vector(h1.pre)
        /\ ida.ida_knew =
               test_error_knew(h1.pre.ida_kk,
                               RMul(h1.ret.err_k, R(h1.pre.ida_kk + 1)),
                               RMul(h1.ret.err_km1, R(h1.pre.ida_kk)),
                               RMul(C21_err_km2(h1.pre), R(h1.pre.ida_kk - 1)))

---------------------------------------------------------------------------
(* The order decision of the steady phase.                                 *)

\* one of the conditions under which the order k+1 estimate is not made
C22_Decided(m) ==
    \/ m.ida_knew = m.ida_kk - 1
    \/ m.ida_kk = m.ida_maxord
    \/ m.ida_ns <= m.ida_kk + 1
    \/ m.ida_kk - m.ida_kused = 1

\* (kk + 2) * err_kp1, the truncation error estimate at order kk + 1
C22_terr_kp1(m) ==
    RMul(R(m.ida_kk + 2),
         RDiv(wrms_norm(m, VSub(m.ida_ee, m.ida_phi[m.ida_kk + 1]),
                        m.ida_ewt, m.ida_suppressalg),
              R(m.ida_kk + 2)))

\* the order C22 states for a step completed from m with err_k, err_km1
C22_Order(m, err_k, err_km1) ==
    IF m.ida_knew = m.ida_kk - 1 THEN m.ida_kk - 1
    ELSE IF C22_Decided(m) THEN m.ida_kk
    ELSE IF m.ida_kk = 1
    THEN (IF RLt(C22_terr_kp1(m), RMul(Rat(1, 2), RMul(R(2), err_k)))
          THEN 2 ELSE 1)
    ELSE IF RLe(RMul(R(m.ida_kk), err_km1),
                RMin(RMul(R(m.ida_kk + 1), err_k), C22_terr_kp1(m)))
    THEN m.ida_kk - 1
    ELSE IF RGe(C22_terr_kp1(m), RMul(R(m.ida_kk + 1), err_k)) THEN m.ida_kk
    ELSE m.ida_kk + 1

\* C22: a complete_step of the steady phase, entered with kk >= 1, lowers
\* the order if knew = kk-1 and maintains it if kk = maxord, ns <= kk+1 or
\* kk - kused = 1; otherwise, at kk = 1 it raises iff terr_kp1 < terr_k / 2
\* and at kk > 1 it lowers iff terr_km1 <= min(terr_k, terr_kp1), else
\* maintains iff terr_kp1 >= terr_k, else raises; kk changes by at most 1.
C22_OrderDecision ==
    (h1.op = "complete_step" /\ ~panic /\ ida.ida_phase = 1 /\ h1.pre.ida_kk >= 1) =>
        /\ ida.ida_kk = C22_Order(h1.pre, h1.arg[1], h1.arg[2])
        /\ ida.ida_kk \in {h1.pre.ida_kk - 1, h1.pre.ida_kk, h1.pre.ida_kk + 1}
        /\ ida.ida_kk = h1.pre.ida_kk + 1 => ~C22_Decided(h1.pre)

\* an order above 1 raised on the estimates
C22_Witness ==
    /\ h1.op = "complete_step" /\ ~panic /\ ida.ida_phase = 1
    /\ h1.pre.ida_kk > 1
    /\ ~C22_Decided(h1.pre)
    /\ ida.ida_kk = h1.pre.ida_kk + 1

---------------------------------------------------------------------------
(* The bootstrap phase.                                                    *)

\* the condition on which complete_step leaves the bootstrap phase
C23_Leaves(m) == m.ida_knew = m.ida_kk - 1 \/ m.ida_kk = m.ida_maxord

\* twice hh, brought back to the largest step allowed when it exceeds it
C23_Doubled(m) ==
    IF RLe(RMul(RAbs(RMul(R(2), m.ida_hh)), m.ida_hmax_inv), One)
    THEN RMul(R(2), m.ida_hh)
    ELSE RDiv(RMul(R(2), m.ida_hh), RMul(RAbs(RMul(R(2), m.ida_hh)), m.ida_hmax_inv))

\* C23: a complete_step that ends in phase 0 raises kk by one and doubles hh
\* (scaled so that |hh| * hmax_inv <= 1) when it is not the first step
\* completed, and leaves kk and hh unchanged when it is the first; the phase
\* becomes 1 as soon as knew = kk-1 or kk = maxord on entry, and a
\* complete_step entered in phase 1 ends in phase 1.
C23_Bootstrap ==
    (h1.op = "complete_step" /\ ~panic) =>
        /\ ida.ida_nst = h1.pre.ida_nst + 1
        /\ (ida.ida_phase = 0 /\ ida.ida_nst > 1) =>
              /\ ida.ida_kk = h1.pre.ida_kk + 1
              /\ ida.ida_hh = C23_Doubled(h1.pre)
              /\ RLe(RMul(RAbs(ida.ida_hh), ida.ida_hmax_inv), One)
        /\ (ida.ida_phase = 0 /\ ida.ida_nst = 1) =>
              /\ ida.ida_kk = h1.pre.ida_kk
              /\ ida.ida_hh = h1.pre.ida_hh
        /\ C23_Leaves(h1.pre) => ida.ida_phase = 1
        /\ h1.pre.ida_phase = 1 => ida.ida_phase = 1
        /\ (h1.pre.ida_phase = 0 /\ ~C23_Leaves(h1.pre)) => ida.ida_phase = 0

\* a first step that changes nothing, then a step that raises the order and
\* doubles the step, then a step that leaves the bootstrap phase
C23_Witness ==
    /\ h1.op = "complete_step" /\ ~panic
    /\ ida.ida_phase = 0 /\ ida.ida_nst > 1
    /\ RGt(RMul(RAbs(RMul(R(2), h1.pre.ida_hh)), h1.pre.ida_hmax_inv), One)
    /\ ida.ida_kk = h1.pre.ida_kk + 1

---------------------------------------------------------------------------
(* The stop time.                                                          *)

\* the last pass of step() got as far as the prediction and did not go on
\* to restore tn
C24_Predicted ==
    /\ st.pc = "loop" /\ st.natt >= 1
    /\ "predict" \in Range(st.calls)
    /\ "restore" \notin Range(st.calls)

\* C24 (as claimed): with tstopset, the tn a pass of step() predicts at is
\* never past tstop in the direction of integration: (tn - tstop) * hh <= 0.
C24_TstopNotPassed ==
    (C24_Predicted /\ ida.ida_tstopset)
        => RLe(RMul(RSub(ida.ida_tn, ida.ida_tstop), ida.ida_hh), Zero)

\* a pass that did bring tn back to tstop
C24_Reset ==
    /\ C24_Predicted /\ ida.ida_tstopset
    /\ ida.ida_tn = ida.ida_tstop
    /\ RNe(RAdd(st.saved_t, ida.ida_hh), ida.ida_tstop)

---------------------------------------------------------------------------
(* reset.                                                                  *)

\* C25 (as claimed): reset() sets psi[0] to hh and scales row phi[1] by rr,
\* and leaves every other field, and every other row of phi, as it was.
C25_ResetFrame ==
    (h1.op = "reset" /\ ~panic) =>
        ida = [h1.pre EXCEPT !.ida_psi[0] = h1.pre.ida_hh,
                             !.ida_phi[1] = VScale(h1.pre.ida_rr, h1.pre.ida_phi[1])]

\* reset leaves everything but psi and phi as it was
C25_ResetTouchesPsiPhi ==
    (h1.op = "reset" /\ ~panic) =>
        ida = [h1.pre EXCEPT !.ida_psi = ida.ida_psi, !.ida_phi = ida.ida_phi]

\* in step(), reset is called only while nst = 0
C25_ResetOnFirstStep ==
    (st.pc = "loop" /\ "reset" \in Range(st.calls)) => ida.ida_nst = 0

---------------------------------------------------------------------------
(* The inner Newton loop.                                                  *)

\* C26 (as claimed): the lsolve call being made is at most the maxiters-th
\* of its pass of the inner loop, and curiter never exceeds maxiters.
C26_IterationsBounded ==
    /\ sv.pc = "lsolve" => sv.y + 1 <= newton.maxiters
    /\ newton.curiter <= newton.maxiters

\* with maxiters >= 1 the bounds of C26 hold
C26_IterationsBoundedFromOne ==
    newton.maxiters >= 1 => C26_IterationsBounded

\* a pass that made maxiters = 2 iterations and raised the recoverable failure
C26_Exhausted ==
    /\ newton.maxiters = 2 /\ newton.curiter = 2 /\ sv.y = 2
    /\ sv.err = "ConvergenceRecover"

---------------------------------------------------------------------------
(* The Jacobian flag on return.                                            *)

\* C27: when solve() has returned Ok, jcur is false; jcur is true on return
\* only from a call that returned an error.
C27_JcurFalseOnOk ==
    (sv.pc = "returned" /\ newton.jcur) => sv.ret # "Ok"

\* a call that returned Ok from a pass entered with jcur true, after lsetup
\* had been called
C27_Witness ==
    /\ sv.pc = "returned" /\ sv.ret = "Ok"
    /\ sv.lsetups # <<>>
    /\ sv.jcur_in
    /\ ~newton.jcur

\* a failed call that returned with jcur true
C27_FailedCurrent ==
    /\ sv.pc = "returned" /\ sv.ret # "Ok"
    /\ newton.jcur

---------------------------------------------------------------------------
(* Termination of solve().                                                 *)

\* C28 (as claimed): every call of solve() returns (or the program has
\* panicked), whatever the callbacks return.
C28_SolveTerminates ==
    (sv.pc \notin {"idle", "returned"}) ~> (sv.pc = "returned" \/ panic)

---------------------------------------------------------------------------
(* The unsigned order arithmetic of complete_step.                         *)

C29_OrderPositive ==
    h1.op = "complete_step" => h1.pre.ida_kk >= 1

---------------------------------------------------------------------------
(* Dense output and the scratch buffers.                                   *)

\* m with the scratch buffers as new() leaves them
C30_Cleared(m) ==
    [m EXCEPT !.ida_cvals = AZeros(MXORDP1), !.ida_dvals = AZeros(MAXORD_DEFAULT)]

=============================================================================
